---- MODULE Spec2Model ----
(***************************************************************************)
(* Normalization, classification and peer-benchmarking core of the retail  *)
(* sales / invoice dashboards.                                             *)
(*                                                                         *)
(* Numbers.  The Python code computes in binary floating point.  Here every*)
(* number is an exact rational <<num, den>> in lowest terms with den > 0,  *)
(* so that equal values are equal tuples; a pandas NaN / None is the empty *)
(* tuple <<>>.  Amounts are whole currency units.                          *)
(***************************************************************************)
EXTENDS Integers, Sequences, FiniteSets, Bags, TLC

VARIABLES
    entry,           \* which entry point this run exercises
    pc,              \* the step of that entry point reached so far
    rank_call,       \* last direct call of calculate_percentile_rank: arguments and result
    df,              \* invoice_dashboard: the loaded (filtered) frame, a bag of rows
    branch_metrics,  \* invoice_dashboard: result of calculate_branch_percentiles(df)
    metrics,         \* invoice_dashboard: result of calculate_metrics(df)
    raw,             \* cleaning scripts: the raw cell handed to a cleaning function
    cleaned,         \* cleaning scripts: which function ran and what it produced
    report,          \* py_split_years: the groups print_override_report forms
    PROC_CODE_MAPPING,  \* analyze_invoices: the module global _PROC_CODE_MAPPING
    loads            \* analyze_invoices: the files load_proc_code_mapping went on to load

vars == <<entry, pc, rank_call, df, branch_metrics, metrics, raw, cleaned, report,
          PROC_CODE_MAPPING, loads>>

----------------------------------------------------------------------------
(* Exact rational arithmetic standing for Python float arithmetic.         *)

Null == <<>>

IsNull(x) == x = Null

Abs(i) == IF i < 0 THEN -i ELSE i

RECURSIVE Gcd(_, _)
Gcd(a, b) == IF b = 0 THEN a ELSE Gcd(b, a % b)

\* n/d in lowest terms, d # 0
Rat(n, d) ==
    LET g == Gcd(Abs(n), Abs(d))
        s == IF d < 0 THEN -1 ELSE 1
    IN  <<(s * n) \div g, (s * d) \div g>>

RInt(i) == <<i, 1>>

RAdd(x, y) == Rat(x[1] * y[2] + y[1] * x[2], x[2] * y[2])
RSub(x, y) == Rat(x[1] * y[2] - y[1] * x[2], x[2] * y[2])
RMul(x, y) == Rat(x[1] * y[1], x[2] * y[2])
RDiv(x, y) == Rat(x[1] * y[2], x[2] * y[1])
RLt(x, y) == x[1] * y[2] < y[1] * x[2]
RLe(x, y) == x[1] * y[2] <= y[1] * x[2]
RMax(x, y) == IF RLt(x, y) THEN y ELSE x
RMin(x, y) == IF RLt(y, x) THEN y ELSE x

R0 == RInt(0)
R50 == RInt(50)
R100 == RInt(100)
RHalf == Rat(1, 2)

\* Series.dropna(): the non-null entries, in order
dropna(s) == SelectSeq(s, LAMBDA x : ~IsNull(x))

\* Series.min() / Series.max(): NaN entries are skipped, NaN when nothing is left
RECURSIVE SeqMin(_)
SeqMin(s) ==
    IF Len(s) = 0 THEN Null
    ELSE IF Len(s) = 1 THEN s[1]
    ELSE RMin(s[1], SeqMin(Tail(s)))

RECURSIVE SeqMax(_)
SeqMax(s) ==
    IF Len(s) = 0 THEN Null
    ELSE IF Len(s) = 1 THEN s[1]
    ELSE RMax(s[1], SeqMax(Tail(s)))

series_min(s) == SeqMin(dropna(s))
series_max(s) == SeqMax(dropna(s))

----------------------------------------------------------------------------
(* calculate_percentile_rank (invoice_dashboard.py).                       *)
(* value: a number or NaN (Null); data_series: a sequence of numbers and   *)
(* NaNs; secondary_value, secondary_series: Null when the argument is None.*)

\* the variant that counts the peers less than or equal to the value
count_less_or_equal(value, sorted_data) ==
    IF IsNull(value) THEN 0
    ELSE Cardinality({i \in 1..Len(sorted_data) : RLe(sorted_data[i], value)})

\* np.sum(sorted_data < value); a comparison with NaN is false
count_less(value, sorted_data) ==
    IF IsNull(value) THEN 0
    ELSE Cardinality({i \in 1..Len(sorted_data) : RLt(sorted_data[i], value)})

\* np.sum(sorted_data == value)
count_equal(value, sorted_data) ==
    IF IsNull(value) THEN 0
    ELSE Cardinality({i \in 1..Len(sorted_data) : sorted_data[i] = value})

\* the variant that never applies the secondary metric
tiebreaker_adjustment_none(value, sorted_data, secondary_value, secondary_series) == R0

\* the variant that adds the normalised secondary value whole, as percentile points
tiebreaker_adjustment_unscaled(value, sorted_data, secondary_value, secondary_series) ==
    IF count_equal(value, sorted_data) > 1
       /\ ~IsNull(secondary_value) /\ ~IsNull(secondary_series)
    THEN LET sec_min == series_min(secondary_series)
             sec_max == series_max(secondary_series)
         IN  IF ~IsNull(sec_min) /\ RLt(sec_min, sec_max)
             THEN RMul(RDiv(RSub(secondary_value, sec_min), RSub(sec_max, sec_min)), R100)
             ELSE R0
    ELSE R0

\* lines 515-525: the secondary tie-break amount
tiebreaker_adjustment(value, sorted_data, secondary_value, secondary_series) ==
    LET n == Len(sorted_data)
    IN  IF count_equal(value, sorted_data) > 1
           /\ ~IsNull(secondary_value) /\ ~IsNull(secondary_series)
        THEN LET sec_min == series_min(secondary_series)
                 sec_max == series_max(secondary_series)
             IN  IF ~IsNull(sec_min) /\ RLt(sec_min, sec_max)
                 THEN RDiv(RMul(RDiv(RSub(secondary_value, sec_min),
                                     RSub(sec_max, sec_min)), RHalf), RInt(n))
                 ELSE R0
        ELSE R0

\* line 529: min(max(percentile, 0.0), 100.0)
clamp(percentile) == RMin(RMax(percentile, R0), R100)

\* the same statement with the clamp left out
calculate_percentile_rank_noclamp(value, data_series, secondary_value, secondary_series) ==
    LET sorted_data == dropna(data_series)
        n == Len(sorted_data)
    IN  IF n <= 1 THEN R50
        ELSE RAdd(RMul(Rat(count_less(value, sorted_data), n - 1), R100),
                  tiebreaker_adjustment(value, sorted_data,
                                        secondary_value, secondary_series))

\* the variant that ranks a single peer by the general formula with n - 1 taken as 1
calculate_percentile_rank_single(value, data_series, secondary_value, secondary_series) ==
    LET sorted_data == dropna(data_series)
        n == Len(sorted_data)
    IN  IF n = 0 THEN R50
        ELSE clamp(RAdd(RMul(Rat(count_less(value, sorted_data),
                                 IF n = 1 THEN 1 ELSE n - 1), R100),
                        tiebreaker_adjustment(value, sorted_data,
                                              secondary_value, secondary_series)))

\* lines 486-529
calculate_percentile_rank(value, data_series, secondary_value, secondary_series) ==
    IF Len(data_series) = 0 THEN R50
    ELSE LET sorted_data == dropna(data_series)
             n == Len(sorted_data)
         IN  IF n = 0 THEN R50
             ELSE IF n = 1 THEN R50
             ELSE clamp(RAdd(RMul(Rat(count_less(value, sorted_data), n - 1), R100),
                             tiebreaker_adjustment(value, sorted_data,
                                                   secondary_value, secondary_series)))

----------------------------------------------------------------------------
(* invoice_dashboard.py: the loaded frame and the benchmarking engine.     *)
(* The frame is a bag of rows: groupby-sum, nunique and len, the only uses *)
(* made of it here, do not read the order of the rows.                     *)

MaxRows == 3

Branches == {1, 2, 3}
\* <<Payments, Balance>> of a row: nothing billed, half collected (the
\* balance is stored negative, line 134 takes its absolute value), all collected
AmountValues == {<<0, 0>>, <<1, -1>>, <<2, 0>>}
PayorLevels == {"patient", "primary"}
InvoiceNumbers == {1, 2}

\* load_invoice_data, lines 116-135: the derived columns of one loaded row
load_row(branch, payments, balance, payor_level, number) ==
    [branch       |-> branch,
     number       |-> number,
     payments     |-> payments,
     balance      |-> balance,
     is_retail    |-> payor_level = "patient",
     is_insurance |-> payor_level \in {"primary", "secondary", "tertiary"},
     total_billed |-> payments + Abs(balance),
     net_billed   |-> payments + (IF balance < 0 THEN 0 ELSE balance)]

\* df[col].sum() over the rows in S
RECURSIVE col_sum(_, _, _)
col_sum(d, S, col) ==
    IF S = {} THEN 0
    ELSE LET r == CHOOSE x \in S : TRUE
         IN  CopiesIn(r, d) * r[col] + col_sum(d, S \ {r}, col)

\* df[col].sum() of a boolean column over the rows in S
RECURSIVE col_count(_, _, _)
col_count(d, S, col) ==
    IF S = {} THEN 0
    ELSE LET r == CHOOSE x \in S : TRUE
         IN  (IF r[col] THEN CopiesIn(r, d) ELSE 0) + col_count(d, S \ {r}, col)

\* the rows of one groupby('branch') group
group(d, b) == {r \in BagToSet(d) : r.branch = b}

\* the group keys, ascending, as groupby(...).reset_index() lists them
RECURSIVE sorted_keys(_)
sorted_keys(K) ==
    IF K = {} THEN <<>>
    ELSE LET m == CHOOSE x \in K : \A y \in K : x <= y
         IN  <<m>> \o sorted_keys(K \ {m})

branch_keys(d) == sorted_keys({r.branch : r \in BagToSet(d)})

\* the variant that reports a zero-billed branch as fully collected
collection_rate_full(payments, total_billed) ==
    IF total_billed > 0 THEN RMul(Rat(payments, total_billed), R100) ELSE R100

\* lines 572-575 and 237: payments / total_billed * 100, None when nothing was billed
collection_rate(payments, total_billed) ==
    IF total_billed > 0 THEN RMul(Rat(payments, total_billed), R100) ELSE Null

\* lines 577-582
retail_mix(retail_items, total_items) ==
    IF total_items > 0 THEN RMul(Rat(retail_items, total_items), R100) ELSE R0

\* lines 551-583: one row of branch_metrics before the ranks are added
aggregate(d, b) ==
    LET g == group(d, b)
        Payments == col_sum(d, g, "payments")
        Total_Billed == col_sum(d, g, "total_billed")
        Retail_Items == col_count(d, g, "is_retail")
        Insurance_Items == col_count(d, g, "is_insurance")
    IN  [Branch          |-> b,
         Payments        |-> Payments,
         Total_Billed    |-> Total_Billed,
         Net_Billed      |-> col_sum(d, g, "net_billed"),
         Retail_Items    |-> Retail_Items,
         Insurance_Items |-> Insurance_Items,
         Invoices        |-> Cardinality({r.number : r \in g}),
         Collection_Rate |-> collection_rate(Payments, Total_Billed),
         Retail_Mix      |-> retail_mix(Retail_Items, Retail_Items + Insurance_Items),
         Total_Items     |-> Retail_Items + Insurance_Items]

\* a column of integers as a series of numbers
int_series(base, col) == [i \in 1..Len(base) |-> RInt(base[i][col])]
\* a column that already holds numbers or None
num_series(base, col) == [i \in 1..Len(base) |-> base[i][col]]

\* the variant with the null replaced by 0 in the weighted sum
performance_score_zero(collection_pctl, payments_pctl, volume_pctl, retail_mix_pctl) ==
    RAdd(RAdd(RMul(IF IsNull(collection_pctl) THEN R0 ELSE collection_pctl, Rat(40, 100)),
              RMul(payments_pctl, Rat(30, 100))),
         RAdd(RMul(volume_pctl, Rat(20, 100)),
              RMul(retail_mix_pctl, Rat(10, 100))))

\* the variant that adds the four ranks without weights
performance_score_sum(collection_pctl, payments_pctl, volume_pctl, retail_mix_pctl) ==
    RAdd(RAdd(IF IsNull(collection_pctl) THEN R50 ELSE collection_pctl, payments_pctl),
         RAdd(volume_pctl, retail_mix_pctl))

\* lines 622-627
performance_score(collection_pctl, payments_pctl, volume_pctl, retail_mix_pctl) ==
    RAdd(RAdd(RMul(IF IsNull(collection_pctl) THEN R50 ELSE collection_pctl, Rat(40, 100)),
              RMul(payments_pctl, Rat(30, 100))),
         RAdd(RMul(volume_pctl, Rat(20, 100)),
              RMul(retail_mix_pctl, Rat(10, 100))))

\* lines 585-627: the four rank lambdas and the composite score of one row
rank_row(row, payments, invoices, total_items, mix, valid_collection) ==
            LET Payments_Pctl ==
                    calculate_percentile_rank(RInt(row.Payments), payments,
                                              RInt(row.Invoices), invoices)
                Collection_Pctl ==
                    IF ~IsNull(row.Collection_Rate)
                    THEN calculate_percentile_rank(row.Collection_Rate, valid_collection,
                                                   RInt(row.Payments), payments)
                    ELSE Null
                Retail_Mix_Pctl ==
                    calculate_percentile_rank(row.Retail_Mix, mix,
                                              RInt(row.Total_Items), total_items)
                Volume_Pctl ==
                    calculate_percentile_rank(RInt(row.Invoices), invoices,
                                              RInt(row.Payments), payments)
            IN  [Branch            |-> row.Branch,
                 Payments          |-> row.Payments,
                 Total_Billed      |-> row.Total_Billed,
                 Net_Billed        |-> row.Net_Billed,
                 Retail_Items      |-> row.Retail_Items,
                 Insurance_Items   |-> row.Insurance_Items,
                 Invoices          |-> row.Invoices,
                 Collection_Rate   |-> row.Collection_Rate,
                 Retail_Mix        |-> row.Retail_Mix,
                 Total_Items       |-> row.Total_Items,
                 Payments_Pctl     |-> Payments_Pctl,
                 Collection_Pctl   |-> Collection_Pctl,
                 Retail_Mix_Pctl   |-> Retail_Mix_Pctl,
                 Volume_Pctl       |-> Volume_Pctl,
                 Performance_Score |-> performance_score(Collection_Pctl, Payments_Pctl,
                                                         Volume_Pctl, Retail_Mix_Pctl)]

\* lines 585-627: the columns the lambdas close over, applied to every row
with_ranks(base) ==
    LET payments == int_series(base, "Payments")
        invoices == int_series(base, "Invoices")
        total_items == int_series(base, "Total_Items")
        mix == num_series(base, "Retail_Mix")
        valid_collection == dropna(num_series(base, "Collection_Rate"))
    IN  [i \in 1..Len(base) |->
            rank_row(base[i], payments, invoices, total_items, mix, valid_collection)]

\* lines 532-629: the returned frame, one row per branch in key order
calculate_branch_percentiles(d) ==
    LET keys == branch_keys(d)
    IN  with_ranks([i \in 1..Len(keys) |-> aggregate(d, keys[i])])

\* lines 202-254: the collection figures of the metrics dictionary
calculate_metrics(d) ==
    IF BagCardinality(d) = 0
    THEN [total_items |-> 0, total_payments |-> 0,
          collection_rate |-> Null, net_collection_rate |-> Null]
    ELSE LET total_payments == col_sum(d, BagToSet(d), "payments")
             total_billed == col_sum(d, BagToSet(d), "total_billed")
             net_billed == col_sum(d, BagToSet(d), "net_billed")
         IN  [total_items |-> BagCardinality(d),
              total_payments |-> total_payments,
              collection_rate |-> collection_rate(total_payments, total_billed),
              net_collection_rate |-> collection_rate(total_payments, net_billed)]

----------------------------------------------------------------------------
(* Direct calls of calculate_percentile_rank.                              *)

MaxPeers == 4

PeerValues == {RInt(10), RInt(20), RInt(30), RInt(40)}
\* the values ranked: the peers' values, one below and one above them all, and NaN
RankedValues == PeerValues \cup {RInt(0), RInt(50), Null}

RECURSIVE SeqsUpTo(_, _)
SeqsUpTo(S, n) ==
    IF n = 0 THEN {<<>>}
    ELSE LET shorter == SeqsUpTo(S, n - 1)
         IN  shorter \cup {Append(s, x) : s \in {t \in shorter : Len(t) = n - 1}, x \in S}

PeerSeries == SeqsUpTo(PeerValues \cup {Null}, MaxPeers)

\* secondary_value / secondary_series pairs; <<Null, Null>> is the call without them
SecondaryArgs ==
    {<<Null, Null>>}
    \cup {<<RInt(v), <<RInt(1), RInt(2), RInt(3)>> >> : v \in 1..3}
    \cup {<<RInt(2), <<RInt(2), RInt(2)>> >>, <<RInt(1), Null>>}

NoCall == [called |-> FALSE]
NotRun == [ran |-> FALSE]

\* analyze_invoices.py, line 112: _PROC_CODE_MAPPING = None, later a dictionary
NoMapping == [is_none |-> TRUE, dict |-> {}]
Dict(d) == [is_none |-> FALSE, dict |-> d]

----------------------------------------------------------------------------
(* Specification of the benchmarking engine.                               *)

Init ==
    /\ entry \in {"rank", "dashboard"}
    /\ pc = "start"
    /\ rank_call = NoCall
    /\ df = EmptyBag
    /\ branch_metrics = NotRun
    /\ metrics = NotRun
    /\ raw = Null
    /\ cleaned = NotRun
    /\ report = NotRun
    /\ PROC_CODE_MAPPING = NoMapping
    /\ loads = <<>>

\* one call calculate_percentile_rank(value, data_series, secondary_value, secondary_series)
CallPercentileRank ==
    /\ entry = "rank"
    /\ pc = "start"
    /\ \E value \in RankedValues, data_series \in PeerSeries, sec \in SecondaryArgs :
          rank_call' = [called           |-> TRUE,
                        value            |-> value,
                        data_series      |-> data_series,
                        secondary_value  |-> sec[1],
                        secondary_series |-> sec[2],
                        result |-> calculate_percentile_rank(value, data_series,
                                                             sec[1], sec[2])]
    /\ pc' = "called"
    /\ UNCHANGED <<entry, df, branch_metrics, metrics, raw, cleaned, report, PROC_CODE_MAPPING, loads>>

\* load_invoice_data: one more row of the frame the dashboard works on
LoadRow ==
    /\ entry = "dashboard"
    /\ pc = "start"
    /\ BagCardinality(df) < MaxRows
    /\ \E b \in Branches, amt \in AmountValues,
          lvl \in PayorLevels, num \in InvoiceNumbers :
          df' = df (+) SetToBag({load_row(b, amt[1], amt[2], lvl, num)})
    /\ UNCHANGED <<entry, pc, rank_call, branch_metrics, metrics, raw, cleaned, report, PROC_CODE_MAPPING, loads>>

\* main, line 871: metrics = calculate_metrics(filtered_df)
CalculateMetrics ==
    /\ entry = "dashboard"
    /\ pc = "start"
    /\ metrics' = [ran |-> TRUE, out |-> calculate_metrics(df)]
    /\ pc' = "metrics"
    /\ UNCHANGED <<entry, rank_call, df, branch_metrics, raw, cleaned, report, PROC_CODE_MAPPING, loads>>

\* main, line 948: branch_perf = calculate_branch_percentiles(filtered_df)
CalculateBranchPercentiles ==
    /\ entry = "dashboard"
    /\ pc = "metrics"
    /\ BagCardinality(df) > 0
    /\ branch_metrics' = [ran |-> TRUE, out |-> calculate_branch_percentiles(df)]
    /\ pc' = "ranked"
    /\ UNCHANGED <<entry, rank_call, df, metrics, raw, cleaned, report, PROC_CODE_MAPPING, loads>>

Next ==
    \/ CallPercentileRank
    \/ LoadRow
    \/ CalculateMetrics
    \/ CalculateBranchPercentiles

Spec == Init /\ [][Next]_vars

----------------------------------------------------------------------------
(* Field cleaning: clean_currency (four copies) and convert_discount_pct.  *)
(* A raw cell is None/NaN, a number, or a string (a sequence of            *)
(* characters).  A call ends with a float or with an uncaught ValueError.  *)

MaxStrLen == 4

Chars == {"$", ",", "(", ")", "-", ".", "1", "a", " "}
Digits == {"1"}

RawStrings == SeqsUpTo(Chars, MaxStrLen)
RawNumbers == {RInt(-50), RInt(0), RInt(10), RInt(100), RInt(150), Rat(25, 2)}

NullCell == [kind |-> "null"]
NumberCell(x) == [kind |-> "number", val |-> x]
StringCell(s) == [kind |-> "string", val |-> s]

RawCells == {NullCell} \cup {NumberCell(x) : x \in RawNumbers}
                       \cup {StringCell(s) : s \in RawStrings}

Returned(x) == [raised |-> FALSE, value |-> x]
ValueError == [raised |-> TRUE, value |-> Null]

\* str.replace(ch, '')
remove_char(s, ch) == SelectSeq(s, LAMBDA c : c # ch)

\* str.strip(): leading and trailing blanks removed
RECURSIVE lstrip(_)
lstrip(s) == IF Len(s) > 0 /\ s[1] = " " THEN lstrip(Tail(s)) ELSE s

RECURSIVE rstrip(_)
rstrip(s) == IF Len(s) > 0 /\ s[Len(s)] = " " THEN rstrip(SubSeq(s, 1, Len(s) - 1)) ELSE s

strip(s) == rstrip(lstrip(s))

digit_value(c) == IF c = "1" THEN 1 ELSE 0

RECURSIVE Pow10(_)
Pow10(k) == IF k = 0 THEN 1 ELSE 10 * Pow10(k - 1)

\* the digits of s read as one decimal integer
RECURSIVE digits_value(_)
digits_value(s) ==
    IF Len(s) = 0 THEN 0
    ELSE 10 * digits_value(SubSeq(s, 1, Len(s) - 1)) + digit_value(s[Len(s)])

\* Python float(str): surrounding blanks are ignored, then an optional sign, then
\* digits with at most one decimal point and at least one digit; Null stands for the
\* ValueError of anything else
float_of_str(s) ==
    LET t == strip(s)
        negative == Len(t) > 0 /\ t[1] = "-"
        body == IF negative THEN Tail(t) ELSE t
        points == {i \in 1..Len(body) : body[i] = "."}
        digits == remove_char(body, ".")
        frac == IF points = {} THEN 0
                ELSE Len(body) - (CHOOSE i \in points : TRUE)
    IN  IF /\ \A i \in 1..Len(body) : body[i] \in Digits \cup {"."}
           /\ Cardinality(points) <= 1
           /\ Len(digits) >= 1
        THEN Rat((IF negative THEN -1 ELSE 1) * digits_value(digits), Pow10(frac))
        ELSE Null

\* the accounting negative: "(123.45)" becomes "-123.45"
unparenthesize(s) ==
    IF Len(s) > 0 /\ s[1] = "(" /\ s[Len(s)] = ")"
    THEN <<"-">> \o SubSeq(s, 2, Len(s) - 1)
    ELSE s

\* analyze_invoices.py, lines 58-76
clean_currency_analyze_invoices(value) ==
    IF value.kind = "null" THEN Returned(R0)
    ELSE IF value.kind = "number" THEN Returned(value.val)
    ELSE LET s == strip(remove_char(remove_char(value.val, "$"), ","))
         IN  IF Len(s) = 0 THEN Returned(R0)
             ELSE LET f == float_of_str(unparenthesize(s))
                  IN  IF IsNull(f) THEN Returned(R0) ELSE Returned(f)

\* invoice_dashboard.py, lines 67-81
clean_currency_invoice_dashboard(value) ==
    IF value.kind = "null" THEN Returned(R0)
    ELSE IF value.kind = "number" THEN Returned(value.val)
    ELSE LET s == strip(remove_char(remove_char(value.val, "$"), ","))
         IN  IF Len(s) = 0 THEN Returned(R0)
             ELSE LET f == float_of_str(unparenthesize(s))
                  IN  IF IsNull(f) THEN Returned(R0) ELSE Returned(f)

\* analyze_sales_orders.py, lines 53-59: float(... or 0), no parentheses, no except
clean_currency_analyze_sales_orders(value) ==
    IF value.kind = "null" THEN Returned(R0)
    ELSE IF value.kind = "number" THEN Returned(value.val)
    ELSE LET s == strip(remove_char(remove_char(value.val, "$"), ","))
         IN  IF Len(s) = 0 THEN Returned(R0)
             ELSE LET f == float_of_str(s)
                  IN  IF IsNull(f) THEN ValueError ELSE Returned(f)

\* retail_dashboard.py, lines 124-135: parentheses handled, no except
clean_currency_retail_dashboard(value) ==
    IF value.kind = "null" THEN Returned(R0)
    ELSE IF value.kind = "number" THEN Returned(value.val)
    ELSE LET s == strip(remove_char(remove_char(value.val, "$"), ","))
         IN  IF Len(s) = 0 THEN Returned(R0)
             ELSE LET f == float_of_str(unparenthesize(s))
                  IN  IF IsNull(f) THEN ValueError ELSE Returned(f)

\* the variant that forgets the division by 100
convert_discount_pct_undivided(value) ==
    IF value.kind = "null" THEN Returned(R0)
    ELSE IF value.kind = "number" THEN Returned(value.val)
    ELSE LET pct == float_of_str(value.val)
         IN  IF IsNull(pct) THEN Returned(R0) ELSE Returned(pct)

\* analyze_sales_orders.py, lines 62-74
convert_discount_pct(value) ==
    IF value.kind = "null" THEN Returned(R0)
    ELSE IF value.kind = "number" THEN Returned(RDiv(value.val, R100))
    ELSE LET pct == float_of_str(value.val)
         IN  IF IsNull(pct) THEN Returned(R0) ELSE Returned(RDiv(pct, R100))

InitClean ==
    /\ entry = "clean"
    /\ pc = "start"
    /\ rank_call = NoCall
    /\ df = EmptyBag
    /\ branch_metrics = NotRun
    /\ metrics = NotRun
    /\ raw \in RawCells
    /\ cleaned = NotRun
    /\ report = NotRun
    /\ PROC_CODE_MAPPING = NoMapping
    /\ loads = <<>>

\* load_and_process_file, lines 247-253: the function applied to one cell
CleanCurrencyAnalyzeInvoices ==
    /\ entry = "clean"
    /\ pc = "start"
    /\ cleaned' = [ran |-> TRUE, fn |-> "analyze_invoices.clean_currency", out |-> clean_currency_analyze_invoices(raw)]
    /\ pc' = "cleaned"
    /\ UNCHANGED <<entry, rank_call, df, branch_metrics, metrics, raw, report, PROC_CODE_MAPPING, loads>>

\* load_invoice_data, lines 128-129: the function applied to one cell
CleanCurrencyInvoiceDashboard ==
    /\ entry = "clean"
    /\ pc = "start"
    /\ cleaned' = [ran |-> TRUE, fn |-> "invoice_dashboard.clean_currency", out |-> clean_currency_invoice_dashboard(raw)]
    /\ pc' = "cleaned"
    /\ UNCHANGED <<entry, rank_call, df, branch_metrics, metrics, raw, report, PROC_CODE_MAPPING, loads>>

\* load_and_process_file, lines 124-130: the function applied to one cell
CleanCurrencyAnalyzeSalesOrders ==
    /\ entry = "clean"
    /\ pc = "start"
    /\ cleaned' = [ran |-> TRUE, fn |-> "analyze_sales_orders.clean_currency", out |-> clean_currency_analyze_sales_orders(raw)]
    /\ pc' = "cleaned"
    /\ UNCHANGED <<entry, rank_call, df, branch_metrics, metrics, raw, report, PROC_CODE_MAPPING, loads>>

\* process_data, lines 144-145: the function applied to one cell
CleanCurrencyRetailDashboard ==
    /\ entry = "clean"
    /\ pc = "start"
    /\ cleaned' = [ran |-> TRUE, fn |-> "retail_dashboard.clean_currency", out |-> clean_currency_retail_dashboard(raw)]
    /\ pc' = "cleaned"
    /\ UNCHANGED <<entry, rank_call, df, branch_metrics, metrics, raw, report, PROC_CODE_MAPPING, loads>>

\* load_and_process_file, lines 134-135: the function applied to one cell
ConvertDiscountPct ==
    /\ entry = "clean"
    /\ pc = "start"
    /\ cleaned' = [ran |-> TRUE, fn |-> "analyze_sales_orders.convert_discount_pct", out |-> convert_discount_pct(raw)]
    /\ pc' = "cleaned"
    /\ UNCHANGED <<entry, rank_call, df, branch_metrics, metrics, raw, report, PROC_CODE_MAPPING, loads>>

NextClean ==
    \/ CleanCurrencyAnalyzeInvoices
    \/ CleanCurrencyInvoiceDashboard
    \/ CleanCurrencyAnalyzeSalesOrders
    \/ CleanCurrencyRetailDashboard
    \/ ConvertDiscountPct

SpecClean == InitClean /\ [][NextClean]_vars

----------------------------------------------------------------------------
(* Classification of line items: the three-flag rule of the sales-order    *)
(* analysis, the single-label rule of the invoice scripts, and the billing *)
(* period.  Strings are sequences of one-character strings.                *)

LowerLetters == <<"a", "b", "c", "d", "e", "f", "g", "h", "i", "j", "k", "l", "m",
                  "n", "o", "p", "q", "r", "s", "t", "u", "v", "w", "x", "y", "z">>
UpperLetters == <<"A", "B", "C", "D", "E", "F", "G", "H", "I", "J", "K", "L", "M",
                  "N", "O", "P", "Q", "R", "S", "T", "U", "V", "W", "X", "Y", "Z">>

\* str.lower() and str.upper(), character by character
lower(s) ==
    [i \in 1..Len(s) |->
        IF \E k \in 1..26 : UpperLetters[k] = s[i]
        THEN LowerLetters[CHOOSE k \in 1..26 : UpperLetters[k] = s[i]]
        ELSE s[i]]

upper(s) ==
    [i \in 1..Len(s) |->
        IF \E k \in 1..26 : LowerLetters[k] = s[i]
        THEN UpperLetters[CHOOSE k \in 1..26 : LowerLetters[k] = s[i]]
        ELSE s[i]]

BoolCell(b) == [kind |-> "bool", val |-> b]
\* a number in a float64 column (an integer column with a missing cell)
FloatCell(x) == [kind |-> "float", val |-> x]
\* the column is not in the file (col in df.columns is false)
AbsentCell == [kind |-> "absent"]

\* analyze_sales_orders.safe_bool with a null counted as true
safe_bool_null_true(value) ==
    IF value.kind = "null" THEN TRUE
    ELSE IF value.kind = "bool" THEN value.val
    ELSE IF value.kind = "string" THEN lower(strip(value.val)) = <<"t", "r", "u", "e">>
    ELSE value.val # R0

\* analyze_sales_orders.safe_bool, lines 42-50
safe_bool(value) ==
    IF value.kind = "null" THEN FALSE
    ELSE IF value.kind = "bool" THEN value.val
    ELSE IF value.kind = "string" THEN lower(strip(value.val)) = <<"t", "r", "u", "e">>
    ELSE value.val # R0

\* lines 84-88: df[col].apply(safe_bool) if the column exists, else False
insurance_flag(cell) == IF cell.kind = "absent" THEN FALSE ELSE safe_bool(cell)

\* bool Series .astype(int)
astype_int(b) == IF b THEN 1 ELSE 0

\* analyze_sales_orders.load_and_process_file, lines 83-116, on one row
classify_sales_order_row(row) ==
    LET Primary == insurance_flag(row.Primary)
        Secondary == insurance_flag(row.Secondary)
        Tertiary == insurance_flag(row.Tertiary)
        is_retail == (~Primary) /\ (~Secondary) /\ (~Tertiary)
    IN  [is_retail             |-> is_retail,
         is_insurance          |-> ~is_retail,
         bills_primary         |-> Primary,
         bills_secondary       |-> Secondary,
         bills_tertiary        |-> Tertiary,
         insurance_level_count |-> astype_int(Primary) + astype_int(Secondary)
                                     + astype_int(Tertiary)]

KeyError == [raised |-> TRUE]

\* str(value) of a flag cell once fillna(False) has made the column one of objects:
\* 'True' / 'False', the digits of an integer, the digits and '.0' of a float
astype_str(cell) ==
    IF cell.kind = "null" THEN <<"F", "a", "l", "s", "e">>
    ELSE IF cell.kind = "bool"
    THEN (IF cell.val THEN <<"T", "r", "u", "e">> ELSE <<"F", "a", "l", "s", "e">>)
    ELSE IF cell.kind = "number" THEN (IF cell.val = R0 THEN <<"0">> ELSE <<"1">>)
    ELSE IF cell.kind = "float"
    THEN (IF cell.val = R0 THEN <<"0", ".", "0">> ELSE <<"1", ".", "0">>)
    ELSE cell.val

\* retail_dashboard.process_data, lines 153-155, on one cell of a flag column
dashboard_flag(cell) ==
    lower(astype_str(cell)) \in {<<"t", "r", "u", "e">>, <<"1">>, <<"y", "e", "s">>}

\* retail_dashboard.process_data, lines 152-161, on one row; df[col] raises
\* KeyError when the column is not in the file
process_data(row) ==
    IF "absent" \in {row.Primary.kind, row.Secondary.kind, row.Tertiary.kind}
    THEN KeyError
    ELSE [raised    |-> FALSE,
          Primary   |-> dashboard_flag(row.Primary),
          Secondary |-> dashboard_flag(row.Secondary),
          Tertiary  |-> dashboard_flag(row.Tertiary),
          is_retail |-> (~dashboard_flag(row.Primary)) /\ (~dashboard_flag(row.Secondary))
                          /\ (~dashboard_flag(row.Tertiary))]

\* the cells a flag column of a sales-order file can hold
FlagCells ==
    {AbsentCell, NullCell, BoolCell(TRUE), BoolCell(FALSE),
     StringCell(<<"t", "r", "u", "e">>), StringCell(<<" ", "T", "R", "U", "E", " ">>),
     StringCell(<<"F", "a", "l", "s", "e">>), StringCell(<<"y", "e", "s">>),
     StringCell(<<"1">>), NumberCell(R0), NumberCell(RInt(1)), FloatCell(RInt(1))}

SalesOrderRows == [Primary : FlagCells, Secondary : FlagCells, Tertiary : FlagCells]

\* the payer-level column of an invoice file as read_csv returns it: missing, or
\* one cell per row, each a string or NaN
MaxColumnLen == 2

PayorLabels ==
    {<<"P", "a", "t", "i", "e", "n", "t">>, <<" ", "p", "a", "t", "i", "e", "n", "t", " ">>,
     <<"P", "A", "T", "I", "E", "N", "T">>, <<"P", "r", "i", "m", "a", "r", "y">>,
     <<"s", "e", "c", "o", "n", "d", "a", "r", "y">>,
     <<"T", "e", "r", "t", "i", "a", "r", "y", " ">>, <<"C", "O", "D">>, <<" ">>}

PayorCells == {NullCell} \cup {StringCell(s) : s \in PayorLabels}

PayorColumns ==
    {[present |-> TRUE, cells |-> c] : c \in SeqsUpTo(PayorCells, MaxColumnLen)}
    \cup {[present |-> FALSE, cells |-> [i \in 1..n |-> AbsentCell]] : n \in 0..MaxColumnLen}

\* read_csv gives a column without any string the dtype float64 (object when the
\* file has no rows); the .str accessor exists on object columns only
has_str_accessor(cells) ==
    Len(cells) = 0 \/ \E i \in 1..Len(cells) : cells[i].kind = "string"

AttributeError == [raised |-> TRUE, value |-> Null]

InsuranceLabels == {<<"p", "r", "i", "m", "a", "r", "y">>,
                    <<"s", "e", "c", "o", "n", "d", "a", "r", "y">>,
                    <<"t", "e", "r", "t", "i", "a", "r", "y">>}

\* one element of .str.strip().str.lower() == 'patient', of .isin([...]) and of
\* .str.strip(); the string methods pass NaN through and NaN compares unequal
classify_payor_cell(cell) ==
    IF cell.kind = "string"
    THEN [is_retail         |-> lower(strip(cell.val)) = <<"p", "a", "t", "i", "e", "n", "t">>,
          is_insurance      |-> lower(strip(cell.val)) \in InsuranceLabels,
          payor_level_clean |-> strip(cell.val)]
    ELSE [is_retail |-> FALSE, is_insurance |-> FALSE, payor_level_clean |-> Null]

\* analyze_invoices.load_and_process_file, lines 233-241, and
\* invoice_dashboard.load_invoice_data, lines 117-125 (the same statements)
classify_payor_level(column) ==
    IF column.present
    THEN IF has_str_accessor(column.cells)
         THEN Returned([i \in 1..Len(column.cells) |-> classify_payor_cell(column.cells[i])])
         ELSE AttributeError
    ELSE Returned([i \in 1..Len(column.cells) |->
                      [is_retail |-> FALSE, is_insurance |-> FALSE,
                       payor_level_clean |-> <<"U", "n", "k", "n", "o", "w", "n">>]])

\* float .astype(int): truncation toward zero
trunc(x) == IF x[1] >= 0 THEN x[1] \div x[2] ELSE -((-x[1]) \div x[2])

\* to_numeric with a string that is not a number read as 2
to_numeric_two(cell) ==
    IF cell.kind = "null" THEN Null
    ELSE IF cell.kind = "number" THEN cell.val
    ELSE IF IsNull(float_of_str(cell.val)) THEN RInt(2) ELSE float_of_str(cell.val)

\* pd.to_numeric(..., errors='coerce') on one cell: NaN for a null and for a
\* string that is not a number
to_numeric(cell) ==
    IF cell.kind = "null" THEN Null
    ELSE IF cell.kind = "number" THEN cell.val
    ELSE float_of_str(cell.val)

\* analyze_invoices.load_and_process_file, lines 266-270
billing_period(cell) ==
    IF cell.kind = "absent" THEN 1
    ELSE LET parsed == to_numeric(cell)
         IN  IF IsNull(parsed) THEN 1 ELSE trunc(parsed)

\* lines 273-274
recurring_flags(cell) ==
    [billing_period |-> billing_period(cell),
     is_recurring   |-> billing_period(cell) > 1,
     is_new         |-> billing_period(cell) = 1]

BillingPeriodNumbers == {RInt(-1), RInt(0), RInt(1), RInt(2), RInt(13), Rat(3, 2), Rat(5, 2)}

BillingPeriodCells ==
    {AbsentCell, NullCell} \cup {NumberCell(x) : x \in BillingPeriodNumbers}
                           \cup {StringCell(s) : s \in RawStrings}

InitClassify ==
    /\ \/ entry = "sales_order" /\ raw \in SalesOrderRows
       \/ entry = "payor_level" /\ raw \in PayorColumns
       \/ entry = "billing_period" /\ raw \in BillingPeriodCells
    /\ pc = "start"
    /\ rank_call = NoCall
    /\ df = EmptyBag
    /\ branch_metrics = NotRun
    /\ metrics = NotRun
    /\ cleaned = NotRun
    /\ report = NotRun
    /\ PROC_CODE_MAPPING = NoMapping
    /\ loads = <<>>

\* analyze_sales_orders.load_and_process_file, lines 83-116
ClassifySalesOrderRow ==
    /\ entry = "sales_order"
    /\ pc = "start"
    /\ cleaned' = [ran |-> TRUE, fn |-> "analyze_sales_orders.load_and_process_file",
                   out |-> classify_sales_order_row(raw)]
    /\ pc' = "classified"
    /\ UNCHANGED <<entry, rank_call, df, branch_metrics, metrics, raw, report, PROC_CODE_MAPPING, loads>>

\* analyze_invoices.load_and_process_file, lines 233-241
ClassifyPayorLevelAnalyzeInvoices ==
    /\ entry = "payor_level"
    /\ pc = "start"
    /\ cleaned' = [ran |-> TRUE, fn |-> "analyze_invoices.load_and_process_file",
                   out |-> classify_payor_level(raw)]
    /\ pc' = "classified"
    /\ UNCHANGED <<entry, rank_call, df, branch_metrics, metrics, raw, report, PROC_CODE_MAPPING, loads>>

\* invoice_dashboard.load_invoice_data, lines 117-125
ClassifyPayorLevelInvoiceDashboard ==
    /\ entry = "payor_level"
    /\ pc = "start"
    /\ cleaned' = [ran |-> TRUE, fn |-> "invoice_dashboard.load_invoice_data",
                   out |-> classify_payor_level(raw)]
    /\ pc' = "classified"
    /\ UNCHANGED <<entry, rank_call, df, branch_metrics, metrics, raw, report, PROC_CODE_MAPPING, loads>>

\* analyze_invoices.load_and_process_file, lines 266-274
ParseBillingPeriod ==
    /\ entry = "billing_period"
    /\ pc = "start"
    /\ cleaned' = [ran |-> TRUE, fn |-> "analyze_invoices.load_and_process_file",
                   out |-> recurring_flags(raw)]
    /\ pc' = "classified"
    /\ UNCHANGED <<entry, rank_call, df, branch_metrics, metrics, raw, report, PROC_CODE_MAPPING, loads>>

\* retail_dashboard.load_data, line 118: the dashboard processes the same file
ProcessData ==
    /\ entry = "sales_order"
    /\ pc = "classified"
    /\ report' = [ran |-> TRUE, fn |-> "retail_dashboard.process_data",
                  out |-> process_data(raw)]
    /\ pc' = "processed"
    /\ UNCHANGED <<entry, rank_call, df, branch_metrics, metrics, raw, cleaned,
                   PROC_CODE_MAPPING, loads>>

NextClassify ==
    \/ ClassifySalesOrderRow
    \/ ProcessData
    \/ ClassifyPayorLevelAnalyzeInvoices
    \/ ClassifyPayorLevelInvoiceDashboard
    \/ ParseBillingPeriod

SpecClassify == InitClassify /\ [][NextClassify]_vars

----------------------------------------------------------------------------
(* py_split_years.py: rule-based procedure-code normalization and its      *)
(* override audit.  A raw code cell is NaN or a string.                    *)

MaxCodeLen == 6
MaxBatchLen == 2

\* lines 33-34
XZERO_CODES == {<<"X", "E", "R", "O">>, <<"Z", "E", "R", "O">>, <<"X", "Z", "E", "R", "O">>, <<"X", "X", "X", "X", "X">>, <<"X", "9", "9", "9", "9">>, <<"Z", "X", "E", "R", "O">>,
                <<"X", "Z", "R", "O">>, <<"W", "A", "R", "R", "A", "N", "T", "Y">>}
E1399_PREFIX == <<"E", "1", "3", "9", "9">>

\* a dictionary in which the corrected value of one entry is the key of another
MANUAL_OVERRIDES_chained ==
    {<<<<"E", "1", "9", "9">>, <<"E", "3", "9", "9">>>>,
     <<<<"E", "3", "9", "9">>, <<"E", "1", "3", "9", "9">>>>}

\* lines 38-50, as the set of <<key, value>> pairs of the dictionary
MANUAL_OVERRIDES ==
    {<<<<"'", "E", "0", "1", "8", "4">>, <<"E", "0", "1", "8", "4">>>>,
     <<<<"1", "3", "9", "9">>, <<"E", "1", "3", "9", "9">>>>,
     <<<<"1", "3", "9", "9", "N", "U">>, <<"E", "1", "3", "9", "9">>>>,
     <<<<"A", "7", "5", "2", "0", "'">>, <<"A", "7", "5", "2", "0">>>>,
     <<<<"A", "9", "2", "7", "0", "1">>, <<"A", "9", "2", "7", "0">>>>,
     <<<<"E", "0", "0", "2", "9", "5">>, <<"E", "0", "2", "9", "5">>>>,
     <<<<"E", "0", "1", "3", "9", "9">>, <<"E", "1", "3", "9", "9">>>>,
     <<<<"E", "0", "6", "2", "7", "N", "U">>, <<"E", "0", "6", "2", "7">>>>,
     <<<<"E", "1", "9", "9">>, <<"E", "1", "3", "9", "9">>>>,
     <<<<"E", "3", "9", "9">>, <<"E", "1", "3", "9", "9">>>>,
     <<<<"E", "6", "3", "5">>, <<"E", "0", "6", "3", "5">>>>}

\* key in dictionary, dictionary[key]
has_key(dict, key) == \E kv \in dict : kv[1] = key
lookup(dict, key) == (CHOOSE kv \in dict : kv[1] = key)[2]

\* str.startswith that never matches
startswith_never(s, prefix) == FALSE

\* str.startswith(prefix)
startswith(s, prefix) == Len(s) >= Len(prefix) /\ SubSeq(s, 1, Len(prefix)) = prefix

\* needle in text
contains(text, needle) ==
    \E i \in 0..(Len(text) - Len(needle)) : SubSeq(text, i + 1, i + Len(needle)) = needle

DecimalDigits == <<"0", "1", "2", "3", "4", "5", "6", "7", "8", "9">>

\* str(n) of a length
str_int(n) ==
    IF n < 10 THEN <<DecimalDigits[n + 1]>>
    ELSE <<DecimalDigits[(n \div 10) + 1], DecimalDigits[(n % 10) + 1]>>

\* str(value): 'nan' for NaN, the string itself for a string
str(value) == IF value.kind = "null" THEN <<"n", "a", "n">> ELSE value.val

\* clean_proc_code with the length check left out
clean_proc_code_any_length(value) ==
    IF value.kind = "null"
    THEN [cleaned |-> <<"X", "Z", "E", "R", "O">>, original |-> str(value), reason |-> <<"N", "U", "L", "L", "/", "N", "a", "N", " ", "v", "a", "l", "u", "e">>]
    ELSE LET original == str(value)
             \* cleaned = original.strip().upper()
             code == upper(strip(original))
         IN  IF has_key(MANUAL_OVERRIDES, code)
             THEN [cleaned  |-> lookup(MANUAL_OVERRIDES, code),
                   original |-> original,
                   reason   |-> <<"M", "a", "n", "u", "a", "l", " ", "o", "v", "e", "r", "r", "i", "d", "e", ":", " ">> \o original \o <<" ", "-", ">", " ">>
                                  \o lookup(MANUAL_OVERRIDES, code)]
             ELSE IF code \in XZERO_CODES
             THEN [cleaned |-> <<"X", "Z", "E", "R", "O">>, original |-> original,
                   reason |-> <<"X", "Z", "E", "R", "O", " ", "v", "a", "r", "i", "a", "n", "t", ":", " ">> \o original]
             ELSE IF startswith(code, E1399_PREFIX) /\ code # E1399_PREFIX
             THEN [cleaned |-> <<"E", "1", "3", "9", "9">>, original |-> original,
                   reason |-> <<"E", "1", "3", "9", "9", " ", "v", "a", "r", "i", "a", "n", "t", ":", " ">> \o original]
             ELSE [cleaned |-> code, original |-> original, reason |-> Null]

\* lines 53-89: (cleaned_value, original_value, override_reason or None)
clean_proc_code(value) ==
    IF value.kind = "null"
    THEN [cleaned |-> <<"X", "Z", "E", "R", "O">>, original |-> str(value), reason |-> <<"N", "U", "L", "L", "/", "N", "a", "N", " ", "v", "a", "l", "u", "e">>]
    ELSE LET original == str(value)
             \* cleaned = original.strip().upper()
             code == upper(strip(original))
         IN  IF has_key(MANUAL_OVERRIDES, code)
             THEN [cleaned  |-> lookup(MANUAL_OVERRIDES, code),
                   original |-> original,
                   reason   |-> <<"M", "a", "n", "u", "a", "l", " ", "o", "v", "e", "r", "r", "i", "d", "e", ":", " ">> \o original \o <<" ", "-", ">", " ">>
                                  \o lookup(MANUAL_OVERRIDES, code)]
             ELSE IF code \in XZERO_CODES
             THEN [cleaned |-> <<"X", "Z", "E", "R", "O">>, original |-> original,
                   reason |-> <<"X", "Z", "E", "R", "O", " ", "v", "a", "r", "i", "a", "n", "t", ":", " ">> \o original]
             ELSE IF startswith(code, E1399_PREFIX) /\ code # E1399_PREFIX
             THEN [cleaned |-> <<"E", "1", "3", "9", "9">>, original |-> original,
                   reason |-> <<"E", "1", "3", "9", "9", " ", "v", "a", "r", "i", "a", "n", "t", ":", " ">> \o original]
             ELSE IF Len(code) # 5
             THEN [cleaned |-> <<"X", "Z", "E", "R", "O">>, original |-> original,
                   reason |-> <<"I", "n", "v", "a", "l", "i", "d", " ", "l", "e", "n", "g", "t", "h", " ", "(">> \o str_int(Len(code)) \o <<")", ":", " ">>
                                \o original]
             ELSE [cleaned |-> code, original |-> original, reason |-> Null]

RECURSIVE overrides_upto(_, _)
\* lines 97-110: the override records of rows 1..n of the column, in row order
\* (idx is n - 1 for the n-th row)
overrides_upto(column, n) ==
    IF n = 0 THEN <<>>
    ELSE LET result == clean_proc_code(column[n])
             earlier == overrides_upto(column, n - 1)
         IN  IF result.reason # <<>>
             THEN Append(earlier, [Row      |-> (n - 1) + 2,
                                   Original |-> result.original,
                                   Cleaned  |-> result.cleaned,
                                   Reason   |-> result.reason])
             ELSE earlier

\* lines 92-113: the cleaned column and the list of override records
clean_proc_codes_column(column) ==
    [cleaned_codes |-> [i \in 1..Len(column) |-> clean_proc_code(column[i]).cleaned],
     overrides     |-> overrides_upto(column, Len(column))]

\* [o for o in overrides if marker in o['Reason']]
with_marker(overrides, marker) == SelectSeq(overrides, LAMBDA o : contains(o.Reason, marker))

\* print_override_report, lines 118-127: the five groups the report counts and lists
print_override_report(overrides) ==
    [xzero_variants   |-> with_marker(overrides, <<"X", "Z", "E", "R", "O", " ", "v", "a", "r", "i", "a", "n", "t">>),
     e1399_variants   |-> with_marker(overrides, <<"E", "1", "3", "9", "9", " ", "v", "a", "r", "i", "a", "n", "t">>),
     manual_overrides |-> with_marker(overrides, <<"M", "a", "n", "u", "a", "l", " ", "o", "v", "e", "r", "r", "i", "d", "e">>),
     invalid_length   |-> with_marker(overrides, <<"I", "n", "v", "a", "l", "i", "d", " ", "l", "e", "n", "g", "t", "h">>),
     null_values      |-> with_marker(overrides, <<"N", "U", "L", "L", "/", "N", "a", "N">>)]

\* raw codes: every string over a small alphabet up to MaxCodeLen, and named samples
ProcCodeAlphabet == {"e", "1", "3", "9", " "}

ProcCodeSamples ==
    {<<"e", "0", "1", "8", "4", "'">>, <<"'", "e", "0", "1", "8", "4">>, <<"X", "E", "R", "O">>, <<"E", "1", "3", "9", "9", "R", "R">>, <<"A", "B", "C", "D", "E", "F", "G">>, <<" ", "E", "0", "1", "8", "4", " ">>,
     <<"E", "0", "1", "8", "4">>, <<"a", "7", "5", "2", "0", "'">>, <<"e", "0", "6", "2", "7", "n", "u">>, <<"w", "a", "r", "r", "a", "n", "t", "y">>, <<"x", "9", "9", "9", "9">>, <<"N", "U", "L", "L", "/", "N", "a", "N">>}

ProcCodeCells ==
    {NullCell} \cup {StringCell(s) : s \in SeqsUpTo(ProcCodeAlphabet, MaxCodeLen)}
               \cup {StringCell(s) : s \in ProcCodeSamples}

BatchCells ==
    {NullCell} \cup {StringCell(s) : s \in {<<"X", "E", "R", "O">>, <<"'", "e", "0", "1", "8", "4">>, <<"E", "1", "3", "9", "9", "R", "R">>, <<"E", "0", "1", "8", "4">>,
                                            <<"A", "B", "C", "D", "E", "F", "G">>, <<"N", "U", "L", "L", "/", "N", "a", "N">>}}

ProcCodeColumns == SeqsUpTo(BatchCells, MaxBatchLen)

InitProc ==
    /\ \/ entry = "proc_code" /\ raw \in ProcCodeCells
       \/ entry = "proc_column" /\ raw \in ProcCodeColumns
    /\ pc = "start"
    /\ rank_call = NoCall
    /\ df = EmptyBag
    /\ branch_metrics = NotRun
    /\ metrics = NotRun
    /\ cleaned = NotRun
    /\ report = NotRun
    /\ PROC_CODE_MAPPING = NoMapping
    /\ loads = <<>>

\* one call clean_proc_code(value)
CleanProcCode ==
    /\ entry = "proc_code"
    /\ pc = "start"
    /\ cleaned' = [ran |-> TRUE, fn |-> "py_split_years.clean_proc_code",
                   out |-> clean_proc_code(raw)]
    /\ pc' = "cleaned"
    /\ UNCHANGED <<entry, rank_call, df, branch_metrics, metrics, raw, report, PROC_CODE_MAPPING, loads>>

\* load_and_clean_data, line 210: df, overrides = clean_proc_codes_column(df)
CleanProcCodesColumn ==
    /\ entry = "proc_column"
    /\ pc = "start"
    /\ cleaned' = [ran |-> TRUE, fn |-> "py_split_years.clean_proc_codes_column",
                   out |-> clean_proc_codes_column(raw)]
    /\ pc' = "cleaned"
    /\ UNCHANGED <<entry, rank_call, df, branch_metrics, metrics, raw, report, PROC_CODE_MAPPING, loads>>

\* main, line 282: print_override_report(overrides)
PrintOverrideReport ==
    /\ entry = "proc_column"
    /\ pc = "cleaned"
    /\ report' = [ran |-> TRUE, out |-> print_override_report(cleaned.out.overrides)]
    /\ pc' = "reported"
    /\ UNCHANGED <<entry, rank_call, df, branch_metrics, metrics, raw, cleaned, PROC_CODE_MAPPING, loads>>

NextProc ==
    \/ CleanProcCode
    \/ CleanProcCodesColumn
    \/ PrintOverrideReport

SpecProc == InitProc /\ [][NextProc]_vars

----------------------------------------------------------------------------
(* analyze_invoices.py: lookup-table procedure-code normalization.  The    *)
(* module global _PROC_CODE_MAPPING is None or a dictionary; a dictionary  *)
(* is the set of its <<key, value>> pairs.                                 *)

MaxMappingRows == 2

\* the guard of line 122 never taken
already_loaded_never(mapping) == FALSE

\* line 122: _PROC_CODE_MAPPING is not None
already_loaded(mapping) == ~mapping.is_none

RECURSIVE split(_, _)
\* str.split(sep)
split(s, sep) ==
    IF \E i \in 1..Len(s) : s[i] = sep
    THEN LET first == CHOOSE i \in 1..Len(s) : s[i] = sep /\ \A j \in 1..(i - 1) : s[j] # sep
         IN  <<SubSeq(s, 1, first - 1)>> \o split(SubSeq(s, first + 1, Len(s)), sep)
    ELSE <<s>>

\* dict[key] = value
dict_set(dict, key, value) == {kv \in dict : kv[1] # key} \cup {<<key, value>>}

\* lines 142-147 for one piece of originals_pipe
store_original(dict, orig, final5) ==
    LET orig_clean == strip(orig)
    IN  IF orig_clean # <<>>
        THEN dict_set(dict_set(dict_set(dict, orig_clean, final5),
                               upper(orig_clean), final5),
                      lower(orig_clean), final5)
        ELSE dict

RECURSIVE store_originals(_, _, _, _)
\* lines 141-147: the first n pieces of one row, in order
store_originals(dict, pieces, final5, n) ==
    IF n = 0 THEN dict
    ELSE store_original(store_originals(dict, pieces, final5, n - 1), pieces[n], final5)

RECURSIVE store_rows(_, _, _)
\* lines 137-147: the first n rows of the mapping file, in order
store_rows(dict, rows, n) ==
    IF n = 0 THEN dict
    ELSE LET final5 == upper(strip(rows[n].final5))
             pieces == split(rows[n].originals_pipe, "|")
         IN  store_originals(store_rows(dict, rows, n - 1), pieces, final5, Len(pieces))

\* lines 125-152 on a mapping file: nothing stored when it does not exist; when the
\* try block raises, what was stored before the exception stays (rows_read rows)
load_file(file) ==
    IF ~file.exists THEN {}
    ELSE store_rows({}, file.rows, file.rows_read)

\* analyze_invoices.clean_proc_code, lines 160-178, given the dictionary that
\* load_proc_code_mapping() returns
clean_proc_code_analyze_invoices(value, mapping) ==
    IF value.kind = "null" THEN <<"U", "N", "K", "N", "O", "W", "N">>
    ELSE LET orig == strip(value.val)
         IN  IF orig = <<>> THEN <<"U", "N", "K", "N", "O", "W", "N">>
             ELSE IF has_key(mapping, orig) THEN lookup(mapping, orig)
             ELSE IF has_key(mapping, upper(orig)) THEN lookup(mapping, upper(orig))
             ELSE upper(orig)

\* line 160-165: the returns before load_proc_code_mapping() is called
returns_unknown(value) == value.kind = "null" \/ strip(value.val) = <<>>

Final5Values == {<<"X", "0", "0", "0", "1">>, <<" ", "y", "0", "0", "0", "2", " ">>}
OriginalsPipes == {<<"a", "b", "c">>, <<"A", "B", "C">>, <<"A", "b", "c", "|", "z", "z">>, <<" ", "q", " ", "|", " ">>}
MappingRows == [final5 : Final5Values, originals_pipe : OriginalsPipes]

MissingFile == [exists |-> FALSE, rows |-> <<>>, rows_read |-> 0]

\* a mapping file: missing, or a table of which rows_read rows are stored before
\* the try block ends (all of them when nothing raises)
MappingFiles ==
    {MissingFile} \cup
    {[exists |-> TRUE, rows |-> t, rows_read |-> n] :
        t \in SeqsUpTo(MappingRows, MaxMappingRows), n \in 0..MaxMappingRows}

OtherFiles ==
    {MissingFile,
     [exists |-> TRUE, rows_read |-> 1,
      rows |-> <<[final5 |-> <<"Z", "0", "0", "0", "3">>, originals_pipe |-> <<"a", "b", "c", "|", "z", "z">>]>>]}

FileNames == {"default", "other"}

LookupCodes == {NullCell} \cup {StringCell(s) : s \in {<<"a", "b", "c">>, <<"A", "B", "C">>, <<"A", "b", "c">>, <<" ", "z", "z", " ">>,
                                                       <<" ">>, <<"q">>}}

InitMapping ==
    /\ entry = "mapping"
    /\ raw \in {f \in [default : MappingFiles, other : OtherFiles] :
                  f.default.rows_read <= Len(f.default.rows)}
    /\ pc = "start"
    /\ rank_call = NoCall
    /\ df = EmptyBag
    /\ branch_metrics = NotRun
    /\ metrics = NotRun
    /\ cleaned = NotRun
    /\ report = NotRun
    /\ PROC_CODE_MAPPING = NoMapping
    /\ loads = <<>>

\* one call load_proc_code_mapping(mapping_file); None stands for the default file
LoadProcCodeMapping ==
    /\ entry = "mapping"
    /\ \E mapping_file \in FileNames :
          /\ IF already_loaded(PROC_CODE_MAPPING)
             THEN UNCHANGED <<PROC_CODE_MAPPING, loads>>
             ELSE /\ PROC_CODE_MAPPING' = Dict(load_file(raw[mapping_file]))
                  /\ loads' = Append(loads, mapping_file)
          /\ cleaned' = [ran |-> TRUE, fn |-> "analyze_invoices.load_proc_code_mapping",
                         arg |-> mapping_file, mapping |-> PROC_CODE_MAPPING'.dict,
                         out |-> PROC_CODE_MAPPING'.dict]
    /\ pc' = "called"
    /\ UNCHANGED <<entry, rank_call, df, branch_metrics, metrics, raw, report>>

\* one call clean_proc_code(value); line 167 calls load_proc_code_mapping()
CleanProcCodeAnalyzeInvoices ==
    /\ entry = "mapping"
    /\ \E value \in LookupCodes :
          /\ IF returns_unknown(value) \/ already_loaded(PROC_CODE_MAPPING)
             THEN UNCHANGED <<PROC_CODE_MAPPING, loads>>
             ELSE /\ PROC_CODE_MAPPING' = Dict(load_file(raw.default))
                  /\ loads' = Append(loads, "default")
          /\ cleaned' = [ran |-> TRUE, fn |-> "analyze_invoices.clean_proc_code",
                         arg |-> value, mapping |-> PROC_CODE_MAPPING'.dict,
                         out |-> clean_proc_code_analyze_invoices(value,
                                                                  PROC_CODE_MAPPING'.dict)]
    /\ pc' = "called"
    /\ UNCHANGED <<entry, rank_call, df, branch_metrics, metrics, raw, report>>

NextMapping ==
    \/ LoadProcCodeMapping
    \/ CleanProcCodeAnalyzeInvoices

SpecMapping == InitMapping /\ [][NextMapping]_vars

----------------------------------------------------------------------------
(* The aggregators of analyze_sales_orders.py and analyze_invoices.py: the *)
(* period rows, branch rows, billing-period bucket rows and the TOTAL row. *)
(* A run reads one batch of loaded rows per period file.                   *)

MaxPeriods == 2
MaxRecords == 3

\* the integer nearest to the rational n / d (d > 0), ties to the even one
round_half_even(n, d) ==
    LET q == n \div d
        r == n % d
    IN  IF 2 * r < d THEN q
        ELSE IF 2 * r > d THEN q + 1
        ELSE IF q % 2 = 0 THEN q ELSE q + 1

\* round(x, 2); nan stays nan
round2(x) == IF IsNull(x) THEN Null ELSE Rat(round_half_even(x[1] * 100, x[2]), 100)

RECURSIVE sum_of(_, _)
\* Series.sum() of an integer column given as a function on 1..n
sum_of(column, n) == IF n = 0 THEN 0 ELSE column[n] + sum_of(column, n - 1)

RECURSIVE RSum(_, _)
\* the sum of the first n entries of a sequence of numbers
RSum(s, n) == IF n = 0 THEN R0 ELSE RAdd(RSum(s, n - 1), s[n])

\* Series.mean() of a column of numbers that has entries
mean(column) == RDiv(RSum(column, Len(column)), RInt(Len(column)))

\* count of the rows of a batch satisfying a test, and the sum of an integer field
count_rows(rows, Test(_)) == Len(SelectSeq(rows, Test))
sum_field(rows, field) == sum_of([i \in 1..Len(rows) |-> rows[i][field]], Len(rows))

\* round(count / total * 100, 2) for total > 0
pct(count, total) == round2(RMul(Rat(count, total), R100))

\* the same expression on numpy integers without a guard: 0 / 0 is nan (a
\* RuntimeWarning, no exception) and stays nan through * 100 and round
np_pct(count, total) == IF total = 0 THEN Null ELSE pct(count, total)

RECURSIVE unique(_)
\* Series.unique(): the distinct values in order of first appearance
unique(s) ==
    IF s = <<>> THEN <<>>
    ELSE LET front == unique(SubSeq(s, 1, Len(s) - 1))
             last == s[Len(s)]
         IN  IF \E i \in 1..Len(front) : front[i] = last THEN front ELSE Append(front, last)

branches_of(rows) == unique([i \in 1..Len(rows) |-> rows[i].branch])

Unknown == <<"U", "n", "k", "n", "o", "w", "n">>

\* analyze_sales_orders.analyze_by_branch, lines 213-218: the label of a branch value
branch_name_sales_orders(branch) == IF IsNull(branch) THEN Unknown ELSE branch

\* analyze_invoices.analyze_by_branch, lines 358-363: the label of a branch value
branch_name_invoices(branch) == IF IsNull(branch) THEN Unknown ELSE strip(branch)

\* analyze_sales_orders.analyze_dataframe, lines 155-203 (counts and percentages)
analyze_dataframe_sales_orders(rows, year_label) ==
    LET total_items == Len(rows)
        retail_items == count_rows(rows, LAMBDA r : r.is_retail)
        insurance_items == count_rows(rows, LAMBDA r : r.is_insurance)
    IN  [Year             |-> year_label,
         Total_Line_Items |-> total_items,
         Retail_Items     |-> retail_items,
         Insurance_Items  |-> insurance_items,
         Retail_Pct       |-> IF total_items > 0 THEN pct(retail_items, total_items) ELSE R0,
         Insurance_Pct    |-> IF total_items > 0 THEN pct(insurance_items, total_items) ELSE R0]

\* analyze_sales_orders.analyze_by_branch, lines 206-237
analyze_by_branch_sales_orders(rows, year_label) ==
    LET names == branches_of(rows)
        stats(branch) ==
            LET branch_df == SelectSeq(rows, LAMBDA r : r.branch = branch)
                retail == count_rows(branch_df, LAMBDA r : r.is_retail)
                insurance == count_rows(branch_df, LAMBDA r : r.is_insurance)
            IN  [Year            |-> year_label,
                 Branch          |-> branch_name_sales_orders(branch),
                 Total_Items     |-> Len(branch_df),
                 Retail_Items    |-> retail,
                 Insurance_Items |-> insurance,
                 Retail_Pct      |-> IF Len(branch_df) > 0 THEN pct(retail, Len(branch_df)) ELSE R0,
                 Insurance_Pct   |-> IF Len(branch_df) > 0 THEN pct(insurance, Len(branch_df))
                                     ELSE R0]
    IN  [i \in 1..Len(names) |-> stats(names[i])]

\* a TOTAL row whose percentages are the averages of the period rows' percentages
totals_sales_orders_mean_pct(summaries) ==
    LET n == Len(summaries)
    IN  [Year             |-> "TOTAL",
         Total_Line_Items |-> sum_of([i \in 1..n |-> summaries[i].Total_Line_Items], n),
         Retail_Items     |-> sum_of([i \in 1..n |-> summaries[i].Retail_Items], n),
         Insurance_Items  |-> sum_of([i \in 1..n |-> summaries[i].Insurance_Items], n),
         Retail_Pct       |-> round2(mean([i \in 1..n |-> summaries[i].Retail_Pct])),
         Insurance_Pct    |-> round2(mean([i \in 1..n |-> summaries[i].Insurance_Pct]))]

\* analyze_sales_orders.main, lines 298-320: the TOTAL row of the summary
totals_sales_orders(summaries) ==
    LET n == Len(summaries)
        total_line_items == sum_of([i \in 1..n |-> summaries[i].Total_Line_Items], n)
        retail_items == sum_of([i \in 1..n |-> summaries[i].Retail_Items], n)
        insurance_items == sum_of([i \in 1..n |-> summaries[i].Insurance_Items], n)
    IN  [Year             |-> "TOTAL",
         Total_Line_Items |-> total_line_items,
         Retail_Items     |-> retail_items,
         Insurance_Items  |-> insurance_items,
         Retail_Pct       |-> np_pct(retail_items, total_line_items),
         Insurance_Pct    |-> np_pct(insurance_items, total_line_items)]

RECURSIVE concat(_, _)
\* pd.concat of the first n frames of a list
concat(frames, n) == IF n = 0 THEN <<>> ELSE concat(frames, n - 1) \o frames[n]

\* analyze_sales_orders.main, lines 267-333: nothing is written without input files
main_sales_orders(batches) ==
    IF batches = <<>>
    THEN [raised |-> FALSE, summary |-> <<>>, by_branch |-> <<>>, billing |-> <<>>]
    ELSE LET all_summaries ==
                 [i \in 1..Len(batches) |-> analyze_dataframe_sales_orders(batches[i], i)]
             all_branch_data ==
                 [i \in 1..Len(batches) |-> analyze_by_branch_sales_orders(batches[i], i)]
         IN  [raised    |-> FALSE,
              summary   |-> Append(all_summaries, totals_sales_orders(all_summaries)),
              by_branch |-> concat(all_branch_data, Len(all_branch_data)),
              billing   |-> <<>>]

\* analyze_invoices.analyze_dataframe, lines 286-347 (counts, payments, percentages);
\* None for an empty batch
analyze_dataframe_invoices(rows, year_label) ==
    LET total_items == Len(rows)
        retail_items == count_rows(rows, LAMBDA r : r.is_retail)
        insurance_items == count_rows(rows, LAMBDA r : r.is_insurance)
        recurring_items == count_rows(rows, LAMBDA r : r.is_recurring)
        new_items == count_rows(rows, LAMBDA r : r.is_new)
        total_payments == sum_field(rows, "payments")
        total_billed == sum_field(rows, "total_billed")
    IN  IF total_items = 0 THEN [is_none |-> TRUE]
        ELSE [is_none             |-> FALSE,
              Year                |-> year_label,
              Total_Line_Items    |-> total_items,
              Retail_Items        |-> retail_items,
              Insurance_Items     |-> insurance_items,
              Retail_Pct          |-> IF total_items > 0 THEN pct(retail_items, total_items)
                                      ELSE R0,
              Insurance_Pct       |-> IF total_items > 0 THEN pct(insurance_items, total_items)
                                      ELSE R0,
              Total_Payments      |-> total_payments,
              Total_Billed        |-> total_billed,
              Collection_Rate_Pct |-> IF total_billed > 0 THEN pct(total_payments, total_billed)
                                      ELSE R100,
              New_Items           |-> new_items,
              Recurring_Items     |-> recurring_items,
              Recurring_Pct       |-> IF total_items > 0 THEN pct(recurring_items, total_items)
                                      ELSE R0,
              Avg_Billing_Period  |->
                  round2(Rat(sum_field(rows, "billing_period"), total_items))]

\* analyze_invoices.analyze_by_branch, lines 350-390
analyze_by_branch_invoices(rows, year_label) ==
    LET names == branches_of(rows)
        stats(branch) ==
            LET branch_df == SelectSeq(rows, LAMBDA r : r.branch = branch)
                retail == count_rows(branch_df, LAMBDA r : r.is_retail)
                insurance == count_rows(branch_df, LAMBDA r : r.is_insurance)
                recurring == count_rows(branch_df, LAMBDA r : r.is_recurring)
            IN  [Year                |-> year_label,
                 Branch              |-> branch_name_invoices(branch),
                 Total_Items         |-> Len(branch_df),
                 Retail_Items        |-> retail,
                 Insurance_Items     |-> insurance,
                 Retail_Pct          |-> pct(retail, Len(branch_df)),
                 Insurance_Pct       |-> pct(insurance, Len(branch_df)),
                 Total_Payments      |-> sum_field(branch_df, "payments"),
                 Total_Billed        |-> sum_field(branch_df, "total_billed"),
                 Collection_Rate_Pct |-> IF sum_field(branch_df, "total_billed") > 0
                                         THEN pct(sum_field(branch_df, "payments"),
                                                  sum_field(branch_df, "total_billed"))
                                         ELSE R100,
                 Recurring_Items     |-> recurring,
                 Recurring_Pct       |-> pct(recurring, Len(branch_df)),
                 Avg_Billing_Period  |->
                     round2(Rat(sum_field(branch_df, "billing_period"), Len(branch_df)))]
    IN  [i \in 1..Len(names) |-> stats(names[i])]

\* lines 398-406
period_buckets ==
    <<[start |-> 1, end |-> 1, label |-> "Period 1 (New)"],
      [start |-> 2, end |-> 3, label |-> "Period 2-3"],
      [start |-> 4, end |-> 6, label |-> "Period 4-6"],
      [start |-> 7, end |-> 12, label |-> "Period 7-12"],
      [start |-> 13, end |-> 24, label |-> "Period 13-24"],
      [start |-> 25, end |-> 36, label |-> "Period 25-36"],
      [start |-> 37, end |-> 999, label |-> "Period 37+"]>>

\* line 409: the rows of the batch within one bucket
bucket_rows(rows, bucket) ==
    SelectSeq(rows, LAMBDA r : r.billing_period >= bucket.start
                               /\ r.billing_period <= bucket.end)

\* lines 413-425 for one bucket that has rows
bucket_stats(rows, bucket, year_label) ==
    LET bucket_df == bucket_rows(rows, bucket)
    IN  [Year           |-> year_label,
         Bucket         |-> bucket.label,
         Period_Start   |-> bucket.start,
         Period_End     |-> bucket.end,
         Item_Count     |-> Len(bucket_df),
         Item_Pct       |-> pct(Len(bucket_df), Len(rows)),
         Total_Payments |-> sum_field(bucket_df, "payments"),
         Payment_Pct    |-> IF sum_field(rows, "payments") > 0
                            THEN pct(sum_field(bucket_df, "payments"),
                                     sum_field(rows, "payments"))
                            ELSE R0]

\* analyze_invoices.analyze_billing_periods, lines 393-428: empty buckets are skipped
analyze_billing_periods(rows, year_label) ==
    LET filled == SelectSeq(period_buckets, LAMBDA bucket : bucket_rows(rows, bucket) # <<>>)
    IN  [k \in 1..Len(filled) |-> bucket_stats(rows, filled[k], year_label)]

\* analyze_invoices.main, lines 501-529: the TOTAL row of the summary
totals_invoices(summaries) ==
    LET n == Len(summaries)
        total_line_items == sum_of([i \in 1..n |-> summaries[i].Total_Line_Items], n)
        retail_items == sum_of([i \in 1..n |-> summaries[i].Retail_Items], n)
        insurance_items == sum_of([i \in 1..n |-> summaries[i].Insurance_Items], n)
        recurring_items == sum_of([i \in 1..n |-> summaries[i].Recurring_Items], n)
        new_items == sum_of([i \in 1..n |-> summaries[i].New_Items], n)
        total_payments == sum_of([i \in 1..n |-> summaries[i].Total_Payments], n)
        total_billed == sum_of([i \in 1..n |-> summaries[i].Total_Billed], n)
    IN  [is_none             |-> FALSE,
         Year                |-> "TOTAL",
         Total_Line_Items    |-> total_line_items,
         Retail_Items        |-> retail_items,
         Insurance_Items     |-> insurance_items,
         Retail_Pct          |-> np_pct(retail_items, total_line_items),
         Insurance_Pct       |-> np_pct(insurance_items, total_line_items),
         Total_Payments      |-> total_payments,
         Total_Billed        |-> total_billed,
         Collection_Rate_Pct |-> IF total_billed > 0 THEN pct(total_payments, total_billed)
                                 ELSE R100,
         New_Items           |-> new_items,
         Recurring_Items     |-> recurring_items,
         Recurring_Pct       |-> np_pct(recurring_items, total_line_items),
         Avg_Billing_Period  |->
             round2(mean([i \in 1..n |-> summaries[i].Avg_Billing_Period]))]

\* analyze_invoices.main, lines 458-549: nothing is written without input files;
\* without any summary, summary_df has no columns and line 503 raises KeyError
main_invoices(batches) ==
    IF batches = <<>>
    THEN [raised |-> FALSE, summary |-> <<>>, by_branch |-> <<>>, billing |-> <<>>]
    ELSE LET analyzed ==
                 [i \in 1..Len(batches) |-> analyze_dataframe_invoices(batches[i], i)]
             all_summaries == SelectSeq(analyzed, LAMBDA summary : ~summary.is_none)
             all_branch_data ==
                 [i \in 1..Len(batches) |-> analyze_by_branch_invoices(batches[i], i)]
             all_billing_data ==
                 [i \in 1..Len(batches) |-> analyze_billing_periods(batches[i], i)]
         IN  IF all_summaries = <<>>
             THEN [raised |-> TRUE, summary |-> <<>>, by_branch |-> <<>>, billing |-> <<>>]
             ELSE [raised    |-> FALSE,
                   summary   |-> Append(all_summaries, totals_invoices(all_summaries)),
                   by_branch |-> concat(all_branch_data, Len(all_branch_data)),
                   billing   |-> concat(all_billing_data, Len(all_billing_data))]

\* the branch office cell of a row: missing, a name, the name with a trailing blank
Offices == {Null, <<"A">>, <<"A", " ">>}

\* a loaded sales-order row (analyze_sales_orders.load_and_process_file)
SalesOrderRecords ==
    {[branch |-> b, is_retail |-> r, is_insurance |-> ~r] : b \in Offices, r \in BOOLEAN}

\* billing period and payment of a loaded invoice row; the balance is zero, so
\* the billed amount is the payment
PeriodPayments == {<<1, 0>>, <<2, 1>>, <<0, 1>>, <<1000, 1>>}

\* a loaded invoice row (analyze_invoices.load_and_process_file, lines 233-274);
\* here the new items are the retail ones and the recurring items the insured ones
invoice_record(branch, period, payment) ==
    [branch         |-> branch,
     is_retail      |-> period <= 1,
     is_insurance   |-> period > 1,
     billing_period |-> period,
     is_recurring   |-> period > 1,
     is_new         |-> period = 1,
     payments       |-> payment,
     total_billed   |-> payment]

\* the invoice rows read: every period and payment for a named and for a missing
\* branch, and the name with a trailing blank on a paid row of period 2
InvoiceRecords ==
    {invoice_record(b, pp[1], pp[2]) : b \in {Null, <<"A">>}, pp \in PeriodPayments}
        \cup {invoice_record(b, 2, 1) : b \in Offices}

\* the rows read so far, over all period files
records_read(batches) == Len(concat(batches, Len(batches)))

InitAggregate ==
    /\ entry \in {"analyze_sales_orders", "analyze_invoices"}
    /\ raw = <<>>
    /\ pc = "start"
    /\ rank_call = NoCall
    /\ df = EmptyBag
    /\ branch_metrics = NotRun
    /\ metrics = NotRun
    /\ cleaned = NotRun
    /\ report = NotRun
    /\ PROC_CODE_MAPPING = NoMapping
    /\ loads = <<>>

\* one more period file in the input directory, so far without rows
FindPeriodFile ==
    /\ entry \in {"analyze_sales_orders", "analyze_invoices"}
    /\ pc = "start"
    /\ Len(raw) < MaxPeriods
    /\ raw' = Append(raw, <<>>)
    /\ UNCHANGED <<entry, pc, rank_call, df, branch_metrics, metrics, cleaned, report,
                   PROC_CODE_MAPPING, loads>>

\* one more row in the newest period file
ReadRecord ==
    /\ entry \in {"analyze_sales_orders", "analyze_invoices"}
    /\ pc = "start"
    /\ raw # <<>>
    /\ records_read(raw) < MaxRecords
    /\ \E r \in IF entry = "analyze_sales_orders" THEN SalesOrderRecords ELSE InvoiceRecords :
          raw' = [raw EXCEPT ![Len(raw)] = Append(@, r)]
    /\ UNCHANGED <<entry, pc, rank_call, df, branch_metrics, metrics, cleaned, report,
                   PROC_CODE_MAPPING, loads>>

\* analyze_sales_orders.main
MainSalesOrders ==
    /\ entry = "analyze_sales_orders"
    /\ pc = "start"
    /\ cleaned' = [ran |-> TRUE, fn |-> "analyze_sales_orders.main",
                   out |-> main_sales_orders(raw)]
    /\ pc' = "done"
    /\ UNCHANGED <<entry, rank_call, df, branch_metrics, metrics, raw, report,
                   PROC_CODE_MAPPING, loads>>

\* analyze_invoices.main
MainInvoices ==
    /\ entry = "analyze_invoices"
    /\ pc = "start"
    /\ cleaned' = [ran |-> TRUE, fn |-> "analyze_invoices.main", out |-> main_invoices(raw)]
    /\ pc' = "done"
    /\ UNCHANGED <<entry, rank_call, df, branch_metrics, metrics, raw, report,
                   PROC_CODE_MAPPING, loads>>

NextAggregate ==
    \/ FindPeriodFile
    \/ ReadRecord
    \/ MainSalesOrders
    \/ MainInvoices

SpecAggregate == InitAggregate /\ [][NextAggregate]_vars

----------------------------------------------------------------------------
(* Creation dates: py_split_years.py drops the rows without a date and     *)
(* writes one file per year; analyze_invoices.safe_parse_date keeps every  *)
(* row and marks a missing date with NaT.  A date cell is NaN, a string or *)
(* a Timestamp; the time of day plays no part and is left out of a date.   *)

MaxDateRows == 2

NaT == [is_nat |-> TRUE]
Date(y, m, d) == [is_nat |-> FALSE, year |-> y, month |-> m, day |-> d]
TimestampCell(date) == [kind |-> "timestamp", val |-> date]

\* a field of a date text is a run of decimal digits
all_digits(field) ==
    /\ Len(field) > 0
    /\ \A i \in 1..Len(field) : \E k \in 1..10 : DecimalDigits[k] = field[i]

RECURSIVE int_of(_)
\* int(field) of a run of digits
int_of(field) ==
    IF field = <<>> THEN 0
    ELSE 10 * int_of(SubSeq(field, 1, Len(field) - 1))
         + (CHOOSE k \in 0..9 : DecimalDigits[k + 1] = field[Len(field)])

is_leap(y) == (y % 4 = 0 /\ y % 100 # 0) \/ y % 400 = 0

days_in_month(y, m) ==
    IF m = 2 THEN (IF is_leap(y) THEN 29 ELSE 28)
    ELSE IF m \in {4, 6, 9, 11} THEN 30 ELSE 31

\* the directives %Y, %m, %d on three fields: four digits of year, one or two
\* digits of month and day, a day the month has
date_of_fields(y, m, d) ==
    IF /\ all_digits(y) /\ Len(y) = 4
       /\ all_digits(m) /\ Len(m) <= 2 /\ int_of(m) \in 1..12
       /\ all_digits(d) /\ Len(d) <= 2 /\ int_of(d) >= 1
       /\ int_of(d) <= days_in_month(int_of(y), int_of(m))
    THEN Date(int_of(y), int_of(m), int_of(d))
    ELSE NaT

\* %m/%d/%Y and %Y-%m-%d on one word
parse_mdy(word) ==
    LET fields == split(word, "/")
    IN  IF Len(fields) = 3 THEN date_of_fields(fields[3], fields[1], fields[2]) ELSE NaT

parse_ymd(word) ==
    LET fields == split(word, "-")
    IN  IF Len(fields) = 3 THEN date_of_fields(fields[1], fields[2], fields[3]) ELSE NaT

\* %H:%M:%S, or %I:%M:%S when twelve, on one word
time_matches(word, twelve) ==
    LET fields == split(word, ":")
    IN  /\ Len(fields) = 3
        /\ \A i \in 1..3 : all_digits(fields[i]) /\ Len(fields[i]) <= 2
        /\ int_of(fields[1]) \in (IF twelve THEN 1..12 ELSE 0..23)
        /\ int_of(fields[2]) \in 0..59
        /\ int_of(fields[3]) \in 0..59

\* datetime.strptime(s, fmt) for the five formats of safe_parse_date, lines 93-99;
\* NaT stands for the ValueError
strptime(s, fmt) ==
    LET words == split(s, " ")
    IN  IF fmt = 1
        THEN (IF Len(words) = 3 /\ time_matches(words[2], TRUE)
                 /\ upper(words[3]) \in {<<"A", "M">>, <<"P", "M">>}
              THEN parse_mdy(words[1]) ELSE NaT)
        ELSE IF fmt = 2
        THEN (IF Len(words) = 2 /\ time_matches(words[2], FALSE)
              THEN parse_mdy(words[1]) ELSE NaT)
        ELSE IF fmt = 3
        THEN (IF Len(words) = 1 THEN parse_mdy(words[1]) ELSE NaT)
        ELSE IF fmt = 4
        THEN (IF Len(words) = 2 /\ time_matches(words[2], FALSE)
              THEN parse_ymd(words[1]) ELSE NaT)
        ELSE (IF Len(words) = 1 THEN parse_ymd(words[1]) ELSE NaT)

RECURSIVE first_format(_, _)
\* lines 93-103: the first of the formats fmt..5 that parses the text
first_format(s, fmt) ==
    IF fmt > 5 THEN NaT
    ELSE IF ~strptime(s, fmt).is_nat THEN strptime(s, fmt)
    ELSE first_format(s, fmt + 1)

\* pd.to_datetime(text, errors='coerce') of one text: the date and date-time
\* layouts above, NaT for a text that is no date
to_datetime(s) == first_format(s, 1)

\* analyze_invoices.safe_parse_date, lines 79-108
safe_parse_date(value) ==
    IF value.kind = "null" THEN NaT
    ELSE IF value.kind = "timestamp" THEN value.val
    ELSE LET s == strip(value.val)
         IN  IF s = <<>> THEN NaT
             ELSE IF ~first_format(s, 1).is_nat THEN first_format(s, 1)
             ELSE to_datetime(s)

\* analyze_invoices.load_and_process_file, lines 213-216: one parsed date per row
\* of the file, NaT in every row when the column is missing
parse_date_column(column) ==
    [i \in 1..Len(column) |->
        IF column[i].kind = "absent" THEN NaT ELSE safe_parse_date(column[i])]

RECURSIVE zfill(_, _)
\* the decimal digits of n, padded with zeros to the width
zfill(n, width) ==
    IF width = 0 THEN <<>>
    ELSE Append(zfill(n \div 10, width - 1), DecimalDigits[(n % 10) + 1])

\* the variant that formats the date as month, day, year
strftime_mdy(date) ==
    IF date.is_nat THEN Null
    ELSE zfill(date.month, 2) \o <<"-">> \o zfill(date.day, 2) \o <<"-">>
         \o zfill(date.year, 4)

\* dt.strftime('%Y-%m-%d'); NaN for NaT
strftime(date) ==
    IF date.is_nat THEN Null
    ELSE zfill(date.year, 4) \o <<"-">> \o zfill(date.month, 2) \o <<"-">>
         \o zfill(date.day, 2)

\* py_split_years.load_and_transform_dates, lines 184-201: the rows of the input
\* with their formatted date, the rows without one dropped
load_and_transform_dates(column) ==
    LET formatted == [i \in 1..Len(column) |->
                         [row  |-> i,
                          date |-> strftime(IF column[i].kind = "null" THEN NaT
                                            ELSE to_datetime(column[i].val))]]
    IN  SelectSeq(formatted, LAMBDA r : ~IsNull(r.date))

\* py_split_years.split_by_year, lines 215-230: one file per value of the first four
\* characters of the formatted date, holding the rows of that value
split_by_year(frame) ==
    LET Year(r) == SubSeq(r.date, 1, 4)
        years == {Year(frame[i]) : i \in 1..Len(frame)}
    IN  {[year |-> y,
          name |-> y \o <<"_", "S", "a", "l", "e", "s", "O", "r", "d", "e", "r", "s", ".", "c", "s", "v">>,
          rows |-> SelectSeq(frame, LAMBDA r : Year(r) = y)] : y \in years}

\* creation-date texts of a sales-order export
SplitDateTexts ==
    {<<"2", "0", "2", "0", "-", "0", "9", "-", "2", "9">>, <<"9", "/", "2", "9", "/", "2", "0", "2", "0">>, <<"1", "2", "/", "3", "1", "/", "2", "0", "2", "1", " ", "1", "1", ":", "5", "9", ":", "5", "9", " ", "P", "M">>, <<"2", "0", "1", "9", "-", "0", "1", "-", "0", "5", " ", "1", "5", ":", "0", "6", ":", "1", "5">>,
     <<"2", "0", "2", "0", "-", "1", "3", "-", "0", "1">>, <<"2", "/", "3", "0", "/", "2", "0", "2", "1">>, <<"n", "/", "a">>}

SplitDateCells == {NullCell} \cup {StringCell(s) : s \in SplitDateTexts}

\* date cells of an invoice export
InvoiceDateCells ==
    SplitDateCells
    \cup {StringCell(<<" ", "2", "0", "2", "1", "-", "0", "1", "-", "0", "5", " ">>), StringCell(<<" ">>), StringCell(<<"2", "/", "2", "9", "/", "2", "0", "2", "0">>),
          TimestampCell(Date(2022, 3, 4)), AbsentCell}

InitDates ==
    /\ \/ entry = "py_split_years" /\ raw \in SeqsUpTo(SplitDateCells, MaxDateRows)
       \/ entry = "safe_parse_date" /\ raw \in SeqsUpTo(InvoiceDateCells, MaxDateRows)
    /\ pc = "start"
    /\ rank_call = NoCall
    /\ df = EmptyBag
    /\ branch_metrics = NotRun
    /\ metrics = NotRun
    /\ cleaned = NotRun
    /\ report = NotRun
    /\ PROC_CODE_MAPPING = NoMapping
    /\ loads = <<>>

\* py_split_years.main, lines 277-286 (the dates of the rows)
SplitByYear ==
    /\ entry = "py_split_years"
    /\ pc = "start"
    /\ cleaned' = [ran |-> TRUE, fn |-> "py_split_years.split_by_year",
                   out |-> split_by_year(load_and_transform_dates(raw))]
    /\ pc' = "split"
    /\ UNCHANGED <<entry, rank_call, df, branch_metrics, metrics, raw, report,
                   PROC_CODE_MAPPING, loads>>

\* analyze_invoices.load_and_process_file, lines 213-216
ParseDateColumn ==
    /\ entry = "safe_parse_date"
    /\ pc = "start"
    /\ cleaned' = [ran |-> TRUE, fn |-> "analyze_invoices.safe_parse_date",
                   out |-> parse_date_column(raw)]
    /\ pc' = "parsed"
    /\ UNCHANGED <<entry, rank_call, df, branch_metrics, metrics, raw, report,
                   PROC_CODE_MAPPING, loads>>

NextDates ==
    \/ SplitByYear
    \/ ParseDateColumn

SpecDates == InitDates /\ [][NextDates]_vars

----------------------------------------------------------------------------
(* The pipeline orchestrators (run_pipeline.py of both packages).  raw is  *)
(* the command line and the file system of a run, loads the steps started  *)
(* so far with the outcome of each, cleaned the success flag of main and   *)
(* report the exit status of the run.                                      *)

\* what a run finds: the input, the scripts directory, each script, the two options
Runs ==
    [input_found : BOOLEAN, scripts_dir_found : BOOLEAN, split_script : BOOLEAN,
     analyze_script : BOOLEAN, reports_script : BOOLEAN, dashboard_script : BOOLEAN,
     skip_reports : BOOLEAN, run_dashboard : BOOLEAN]

\* run_script and run_dashboard: a step started, and whether its process succeeded
Started(step, ok) == [step |-> step, ok |-> ok]

\* sys.exit(status), or the return of main with status 0
Exited(status) == [ran |-> TRUE, out |-> status]

Flag(value) == [ran |-> TRUE, out |-> value]

InitPipeline ==
    /\ entry \in {"sales_pipeline", "invoice_pipeline"}
    /\ raw \in Runs
    /\ pc = "start"
    /\ rank_call = NoCall
    /\ df = EmptyBag
    /\ branch_metrics = NotRun
    /\ metrics = NotRun
    /\ cleaned = NotRun
    /\ report = NotRun
    /\ PROC_CODE_MAPPING = NoMapping
    /\ loads = <<>>

\* retail_dashboard_example/run_pipeline.py main, lines 153-180: the input file
\* and the scripts directory are validated, pipeline_success = True
SalesValidate ==
    /\ entry = "sales_pipeline"
    /\ pc = "start"
    /\ IF raw.input_found /\ raw.scripts_dir_found
       THEN pc' = "step1" /\ cleaned' = Flag(TRUE) /\ UNCHANGED report
       ELSE pc' = "exited" /\ report' = Exited(1) /\ UNCHANGED cleaned
    /\ UNCHANGED <<entry, rank_call, df, branch_metrics, metrics, raw,
                   PROC_CODE_MAPPING, loads>>

\* lines 182-204: step 1, py_split_years.py
SalesSplitYears ==
    /\ entry = "sales_pipeline"
    /\ pc = "step1"
    /\ IF ~raw.split_script
       THEN pc' = "exited" /\ report' = Exited(1) /\ UNCHANGED loads
       ELSE \E ok \in BOOLEAN :
               /\ loads' = Append(loads, Started("py_split_years", ok))
               /\ IF ok THEN pc' = "step2" /\ UNCHANGED report
                  ELSE pc' = "exited" /\ report' = Exited(1)
    /\ UNCHANGED <<entry, rank_call, df, branch_metrics, metrics, raw, cleaned,
                   PROC_CODE_MAPPING>>

\* lines 206-229: step 2, analyze_sales_orders.py
SalesAnalyze ==
    /\ entry = "sales_pipeline"
    /\ pc = "step2"
    /\ IF ~raw.analyze_script
       THEN pc' = "exited" /\ report' = Exited(1) /\ UNCHANGED loads
       ELSE \E ok \in BOOLEAN :
               /\ loads' = Append(loads, Started("analyze_sales_orders", ok))
               /\ IF ok THEN pc' = "step3" /\ UNCHANGED report
                  ELSE pc' = "exited" /\ report' = Exited(1)
    /\ UNCHANGED <<entry, rank_call, df, branch_metrics, metrics, raw, cleaned,
                   PROC_CODE_MAPPING>>

\* lines 231-258: step 3, generate_reports.py, optional
SalesReports ==
    /\ entry = "sales_pipeline"
    /\ pc = "step3"
    /\ IF raw.skip_reports \/ ~raw.reports_script
       THEN UNCHANGED <<loads, cleaned>>
       ELSE \E ok \in BOOLEAN :
               /\ loads' = Append(loads, Started("generate_reports", ok))
               /\ cleaned' = IF ok THEN cleaned ELSE Flag(FALSE)
    /\ pc' = "step4"
    /\ UNCHANGED <<entry, rank_call, df, branch_metrics, metrics, raw, report,
                   PROC_CODE_MAPPING>>

\* lines 260-289: the summary and step 4, retail_dashboard.py, optional; main
\* returns after the dashboard however it ended
SalesDashboard ==
    /\ entry = "sales_pipeline"
    /\ pc = "step4"
    /\ IF ~raw.run_dashboard
       THEN report' = Exited(0) /\ UNCHANGED loads
       ELSE IF ~raw.dashboard_script
       THEN report' = Exited(1) /\ UNCHANGED loads
       ELSE \E ok \in BOOLEAN :
               /\ loads' = Append(loads, Started("retail_dashboard", ok))
               /\ report' = Exited(0)
    /\ pc' = "exited"
    /\ UNCHANGED <<entry, rank_call, df, branch_metrics, metrics, raw, cleaned,
                   PROC_CODE_MAPPING>>

\* retail_dashboard_invoices/run_pipeline.py main, lines 133-148: the input
\* directory exists and holds CSV files, success = True
InvoiceValidate ==
    /\ entry = "invoice_pipeline"
    /\ pc = "start"
    /\ IF raw.input_found
       THEN pc' = "step1" /\ cleaned' = Flag(TRUE) /\ UNCHANGED report
       ELSE pc' = "exited" /\ report' = Exited(1) /\ UNCHANGED cleaned
    /\ UNCHANGED <<entry, rank_call, df, branch_metrics, metrics, raw,
                   PROC_CODE_MAPPING, loads>>

\* lines 150-168: step 1, analyze_invoices.py
InvoiceAnalyze ==
    /\ entry = "invoice_pipeline"
    /\ pc = "step1"
    /\ IF ~raw.analyze_script
       THEN pc' = "exited" /\ report' = Exited(1) /\ UNCHANGED <<loads, cleaned>>
       ELSE \E ok \in BOOLEAN :
               /\ loads' = Append(loads, Started("analyze_invoices", ok))
               /\ cleaned' = Flag(ok)
               /\ pc' = "step2"
               /\ UNCHANGED report
    /\ UNCHANGED <<entry, rank_call, df, branch_metrics, metrics, raw,
                   PROC_CODE_MAPPING>>

\* lines 170-190: step 2, generate_reports.py, optional
InvoiceReports ==
    /\ entry = "invoice_pipeline"
    /\ pc = "step2"
    /\ IF cleaned.out /\ ~raw.skip_reports /\ raw.reports_script
       THEN \E ok \in BOOLEAN : loads' = Append(loads, Started("generate_reports", ok))
       ELSE UNCHANGED loads
    /\ pc' = "step3"
    /\ UNCHANGED <<entry, rank_call, df, branch_metrics, metrics, raw, cleaned, report,
                   PROC_CODE_MAPPING>>

\* lines 192-231: the summary, step 3, invoice_dashboard.py, optional, and
\* sys.exit(0 if success else 1)
InvoiceDashboard ==
    /\ entry = "invoice_pipeline"
    /\ pc = "step3"
    /\ IF raw.run_dashboard /\ raw.dashboard_script
       THEN \E ok \in BOOLEAN : loads' = Append(loads, Started("invoice_dashboard", ok))
       ELSE UNCHANGED loads
    /\ report' = Exited(IF cleaned.out THEN 0 ELSE 1)
    /\ pc' = "exited"
    /\ UNCHANGED <<entry, rank_call, df, branch_metrics, metrics, raw, cleaned,
                   PROC_CODE_MAPPING>>

NextPipeline ==
    \/ SalesValidate
    \/ SalesSplitYears
    \/ SalesAnalyze
    \/ SalesReports
    \/ SalesDashboard
    \/ InvoiceValidate
    \/ InvoiceAnalyze
    \/ InvoiceReports
    \/ InvoiceDashboard

SpecPipeline == InitPipeline /\ [][NextPipeline]_vars

----------------------------------------------------------------------------
(* Properties of the benchmarking engine (specification Spec).             *)

PctlColumns == {"Payments_Pctl", "Collection_Pctl", "Retail_Mix_Pctl", "Volume_Pctl"}

InRange(x) == RLe(R0, x) /\ RLe(x, R100)

\* the rows returned by calculate_branch_percentiles, none before it ran
Ranked == IF branch_metrics.ran THEN branch_metrics.out ELSE <<>>

NumBelow(v, peers) == Cardinality({i \in 1..Len(peers) : RLt(peers[i], v)})
NumEqual(v, peers) == Cardinality({i \in 1..Len(peers) : peers[i] = v})

\* C1: for a peer set of n >= 2 non-null values and a value v without a tie in it,
\* calculate_percentile_rank returns (peers strictly below v) / (n - 1) * 100 clamped
\* to [0,100]: 0 when no peer is below v, 100 when v is above all other peers, and
\* 200/3 for v = 30 among {10, 20, 30, 40}.
C1_UntiedRankIsInterpolated ==
    rank_call.called =>
        LET v == rank_call.value
            peers == dropna(rank_call.data_series)
            n == Len(peers)
            result == rank_call.result
        IN  (n >= 2 /\ ~IsNull(v) /\ NumEqual(v, peers) <= 1) =>
                LET below == NumBelow(v, peers)
                IN  /\ below <= n - 1 => RMul(result, RInt(n - 1)) = RInt(100 * below)
                    /\ below > n - 1 => result = R100
                    /\ below = 0 => result = R0
                    /\ below >= n - 1 => result = R100
                    /\ (peers = <<RInt(10), RInt(20), RInt(30), RInt(40)>> /\ v = RInt(30))
                          => result = Rat(200, 3)

C1_Witness ==
    /\ rank_call.called
    /\ rank_call.data_series = <<RInt(10), RInt(20), RInt(30), RInt(40)>>
    /\ rank_call.value = RInt(30)
    /\ ~IsNull(rank_call.secondary_series)
    /\ rank_call.result = Rat(200, 3)

\* C2: with fewer than 2 non-null peers (empty, all-null, one value)
\* calculate_percentile_rank returns the neutral rank 50 for every value and every
\* secondary input; benchmarking over exactly one branch gives 50 for each of that
\* branch's non-null ranks.
C2_NeutralRankBelowTwoPeers ==
    /\ (rank_call.called /\ Len(dropna(rank_call.data_series)) < 2)
          => rank_call.result = R50
    /\ Len(Ranked) = 1 =>
          \A col \in PctlColumns : ~IsNull(Ranked[1][col]) => Ranked[1][col] = R50

C2_Witness ==
    /\ rank_call.called
    /\ Len(rank_call.data_series) > 1
    /\ Len(dropna(rank_call.data_series)) = 1
    /\ ~IsNull(rank_call.value)
    /\ rank_call.value # dropna(rank_call.data_series)[1]
    /\ ~IsNull(rank_call.secondary_series)
    /\ rank_call.result = R50

\* C3: every percentile rank the engine produces (payments, collection rate, retail
\* mix, volume), with or without the tie-break adjustment, lies in [0,100].
C3_RanksWithinBounds ==
    /\ rank_call.called => InRange(rank_call.result)
    /\ \A i \in 1..Len(Ranked) : \A col \in PctlColumns :
          ~IsNull(Ranked[i][col]) => InRange(Ranked[i][col])

\* a value above every peer, whose unclamped rank n / (n - 1) * 100 exceeds 100
C3_Witness ==
    /\ rank_call.called
    /\ ~IsNull(rank_call.value)
    /\ Len(dropna(rank_call.data_series)) >= 2
    /\ NumBelow(rank_call.value, dropna(rank_call.data_series))
          = Len(dropna(rank_call.data_series))
    /\ rank_call.result = R100

\* C4: two branches with equal total payments and different invoice counts get
\* different payments-ranks, the larger invoice count the strictly larger rank.
C4_PaymentTiesOrderedByInvoices ==
    \A i, j \in 1..Len(Ranked) :
        (Ranked[i].Payments = Ranked[j].Payments /\ Ranked[i].Invoices < Ranked[j].Invoices)
            => RLt(Ranked[i].Payments_Pctl, Ranked[j].Payments_Pctl)

\* two branches tied on payments, one of them with more invoices
C4_Witness ==
    \E i, j \in 1..Len(Ranked) :
        /\ Ranked[i].Payments = Ranked[j].Payments
        /\ Ranked[i].Payments > 0
        /\ Ranked[i].Invoices < Ranked[j].Invoices
        /\ RLt(Ranked[i].Payments_Pctl, Ranked[j].Payments_Pctl)

\* the rank the tie-break rule describes: peers and their secondary values are
\* the two columns of one and the same peer set
DescribedAdjustment(v, peers, sv, secondaries) ==
    LET lo == SeqMin(secondaries)
        hi == SeqMax(secondaries)
    IN  IF NumEqual(v, peers) > 1 /\ RLt(lo, hi)
        THEN RDiv(RMul(RDiv(RSub(sv, lo), RSub(hi, lo)), RHalf), RInt(Len(peers)))
        ELSE R0

DescribedRank(v, peers, sv, secondaries) ==
    IF Len(peers) < 2 THEN R50
    ELSE clamp(RAdd(RMul(Rat(NumBelow(v, peers), Len(peers) - 1), R100),
                    DescribedAdjustment(v, peers, sv, secondaries)))

\* the rows with a collection rate: the peer set of the collection-rate rank
RatedRows(rows) == SelectSeq(rows, LAMBDA r : ~IsNull(r.Collection_Rate))

\* C5: in each of the four rank computations the amount added to the primary rank
\* is secondary_normalized * 0.5 / n, n the size of the peer set of the primary rank
\* and secondary_normalized taken over the minimum and maximum of the secondary
\* metric among the members of that same peer set (0 when that range is zero or when
\* nothing ties); in particular for the collection-rate rank, whose peer set leaves
\* out the branches without a collection rate.
C5_AdjustmentOverThePeerSet ==
    LET rows == Ranked
        rated == RatedRows(rows)
    IN  \A i \in 1..Len(rows) :
        LET r == rows[i]
        IN  /\ r.Payments_Pctl =
                  DescribedRank(RInt(r.Payments), int_series(rows, "Payments"),
                                RInt(r.Invoices), int_series(rows, "Invoices"))
            /\ r.Retail_Mix_Pctl =
                  DescribedRank(r.Retail_Mix, num_series(rows, "Retail_Mix"),
                                RInt(r.Total_Items), int_series(rows, "Total_Items"))
            /\ r.Volume_Pctl =
                  DescribedRank(RInt(r.Invoices), int_series(rows, "Invoices"),
                                RInt(r.Payments), int_series(rows, "Payments"))
            /\ ~IsNull(r.Collection_Rate) =>
                  r.Collection_Pctl =
                      DescribedRank(r.Collection_Rate, num_series(rated, "Collection_Rate"),
                                    RInt(r.Payments), int_series(rated, "Payments"))

\* C6: in calculate_branch_percentiles and in calculate_metrics a branch or
\* population with zero total billed has a null collection rate, never 100%; with
\* positive total billed the rate is payments / total billed * 100.
C6_ZeroBilledHasNoRate ==
    /\ \A i \in 1..Len(Ranked) :
          LET r == Ranked[i]
          IN  /\ r.Total_Billed = 0 => IsNull(r.Collection_Rate)
              /\ r.Total_Billed > 0 =>
                    /\ ~IsNull(r.Collection_Rate)
                    /\ RMul(r.Collection_Rate, RInt(r.Total_Billed)) = RInt(100 * r.Payments)
    /\ metrics.ran =>
          LET rows == BagToSet(df)
              billed == col_sum(df, rows, "total_billed")
              rate == metrics.out.collection_rate
          IN  /\ billed = 0 => IsNull(rate)
              /\ billed > 0 =>
                    /\ ~IsNull(rate)
                    /\ RMul(rate, RInt(billed)) = RInt(100 * col_sum(df, rows, "payments"))

\* a zero-billed branch ranked next to a branch that was billed
C6_Witness ==
    \E i, j \in 1..Len(Ranked) :
        /\ Ranked[i].Total_Billed = 0
        /\ IsNull(Ranked[i].Collection_Rate)
        /\ Ranked[j].Total_Billed > 0
        /\ ~IsNull(Ranked[j].Collection_Rate)

\* the frame without the rows of the branches that have no collection rate
WithoutUnratedBranches(d) ==
    LET unrated == {b \in Branches : group(d, b) # {}
                                     /\ IsNull(aggregate(d, b).Collection_Rate)}
        kept == {r \in BagToSet(d) : r.branch \notin unrated}
    IN  [r \in kept |-> d[r]]

\* C7: a branch with a null collection rate gets a null collection-rate rank, and
\* every other branch's collection-rate rank is what it would be were the null-rate
\* branches absent from the input.
C7_UnratedBranchesDoNotAffectRanks ==
    branch_metrics.ran =>
        LET alone == calculate_branch_percentiles(WithoutUnratedBranches(df))
        IN  \A i \in 1..Len(Ranked) :
            LET r == Ranked[i]
            IN  /\ IsNull(r.Collection_Rate) => IsNull(r.Collection_Pctl)
                /\ ~IsNull(r.Collection_Rate) =>
                      \A k \in 1..Len(alone) :
                          alone[k].Branch = r.Branch
                              => alone[k].Collection_Pctl = r.Collection_Pctl

\* C8: Performance Score = collection-rate-rank * 0.40 + payments-rank * 0.30 +
\* volume-rank * 0.20 + retail-mix-rank * 0.10 with 50 in place of a null
\* collection-rate rank in the sum only: the returned row keeps the null rank and rate.
C8_PerformanceScoreWeights ==
    \A i \in 1..Len(Ranked) :
        LET r == Ranked[i]
            coll == IF IsNull(r.Collection_Pctl) THEN R50 ELSE r.Collection_Pctl
        IN  /\ RMul(r.Performance_Score, R100) =
                  RAdd(RAdd(RMul(RInt(40), coll), RMul(RInt(30), r.Payments_Pctl)),
                       RAdd(RMul(RInt(20), r.Volume_Pctl), RMul(RInt(10), r.Retail_Mix_Pctl)))
            /\ r.Total_Billed <= 0 => IsNull(r.Collection_Pctl) /\ IsNull(r.Collection_Rate)

\* a zero-billed branch among others: its score counts 50 for the missing rank
C8_Witness ==
    \E i \in 1..Len(Ranked) :
        /\ Len(Ranked) >= 2
        /\ Ranked[i].Total_Billed = 0
        /\ IsNull(Ranked[i].Collection_Pctl)
        /\ RLt(RInt(20), Ranked[i].Performance_Score)

----------------------------------------------------------------------------
(* Properties of the cleaning functions (specification SpecClean).         *)

CurrencyCleaners == {"analyze_invoices.clean_currency", "invoice_dashboard.clean_currency",
                     "analyze_sales_orders.clean_currency", "retail_dashboard.clean_currency"}

\* the documented currency policy for a string: '$' and ',' dropped, a fully
\* parenthesised value negated, 0.0 when the rest does not parse
CurrencyPolicy(s) ==
    LET f == float_of_str(unparenthesize(strip(remove_char(remove_char(s, "$"), ","))))
    IN  IF IsNull(f) THEN R0 ELSE f

\* C9: every currency-cleaning function (both analysis scripts, both dashboards)
\* never raises: null gives 0.0, a number itself, a string is stripped of '$' and
\* ',', "(1)" gives -1, and a string that still does not parse (the empty string
\* included) gives 0.0.
C9_CurrencyCleaningNeverRaises ==
    (cleaned.ran /\ cleaned.fn \in CurrencyCleaners) =>
        /\ ~cleaned.out.raised
        /\ raw.kind = "null" => cleaned.out.value = R0
        /\ raw.kind = "number" => cleaned.out.value = raw.val
        /\ raw.kind = "string" => cleaned.out.value = CurrencyPolicy(raw.val)

DiscountRan == cleaned.ran /\ cleaned.fn = "analyze_sales_orders.convert_discount_pct"

\* the percentage a raw discount cell parses to, Null when it is null or unparsable
ParsedPct == IF raw.kind = "number" THEN raw.val
             ELSE IF raw.kind = "string" THEN float_of_str(raw.val)
             ELSE Null

InUnitInterval(x) == RLe(R0, x) /\ RLe(x, RInt(1))

----------------------------------------------------------------------------
(* Properties of the classification rules (specification SpecClassify).    *)

SalesOrderRan == entry = "sales_order" /\ cleaned.ran
PayorLevelRan == entry = "payor_level" /\ cleaned.ran
BillingPeriodRan == entry = "billing_period" /\ cleaned.ran

\* a null or absent flag counts as false, a boolean flag as itself
FlagAgrees(cell, stored) ==
    /\ cell.kind \in {"null", "absent"} => ~stored
    /\ cell.kind = "bool" => stored = cell.val

NumTrue(a, b, c) == Cardinality({k \in {<<1, a>>, <<2, b>>, <<3, c>>} : k[2]})

\* C11: under the three-flag rule, for every combination of the three payer-level
\* flags (null or absent flags count as false), is_retail holds iff all three flags
\* are false, is_insurance is the negation of is_retail, and insurance_level_count
\* is the number of true flags (0..3), 0 iff is_retail.
C11_ThreeFlagRule ==
    SalesOrderRan =>
        LET o == cleaned.out
        IN  /\ FlagAgrees(raw.Primary, o.bills_primary)
            /\ FlagAgrees(raw.Secondary, o.bills_secondary)
            /\ FlagAgrees(raw.Tertiary, o.bills_tertiary)
            /\ o.is_retail <=> (~o.bills_primary /\ ~o.bills_secondary /\ ~o.bills_tertiary)
            /\ o.is_insurance <=> ~o.is_retail
            /\ o.insurance_level_count
                 = NumTrue(o.bills_primary, o.bills_secondary, o.bills_tertiary)
            /\ o.insurance_level_count \in 0..3
            /\ o.insurance_level_count = 0 <=> o.is_retail

\* a row with a null, an absent and a true flag, classified as insurance with one level
C11_Witness ==
    /\ SalesOrderRan
    /\ raw.Primary = NullCell
    /\ raw.Secondary = AbsentCell
    /\ raw.Tertiary = BoolCell(TRUE)
    /\ cleaned.out.is_insurance
    /\ ~cleaned.out.is_retail
    /\ cleaned.out.insurance_level_count = 1

\* the classification the single-label rule describes for one label
DescribedLabelClass(cell) ==
    IF cell.kind = "string" /\ lower(strip(cell.val)) = <<"p", "a", "t", "i", "e", "n", "t">>
    THEN "retail"
    ELSE IF cell.kind = "string" /\ lower(strip(cell.val)) \in InsuranceLabels
    THEN "insurance"
    ELSE "neither"

\* C12: under the single-label rule no record is both retail and insurance: a label
\* equal to "patient" after trimming and lower-casing gives retail only, "primary",
\* "secondary" or "tertiary" insurance only, and every other label, a null label or
\* an absent payer-level column neither, without raising.
C12_SingleLabelRule ==
    PayorLevelRan =>
        /\ ~cleaned.out.raised
        /\ \A i \in 1..Len(raw.cells) :
              LET o == cleaned.out.value[i]
                  class == DescribedLabelClass(raw.cells[i])
              IN  /\ o.is_retail <=> class = "retail"
                  /\ o.is_insurance <=> class = "insurance"

\* C13: is_recurring holds iff the parsed billing-period number is greater than 1,
\* and the parsed billing period is 1 (hence not recurring) whenever the field is
\* absent, null or not parsable as a number.
C13_RecurringIffPeriodAboveOne ==
    BillingPeriodRan =>
        LET o == cleaned.out
        IN  /\ o.is_recurring <=> o.billing_period > 1
            /\ (\/ raw.kind \in {"absent", "null"}
                \/ raw.kind = "string" /\ IsNull(float_of_str(raw.val)))
               => o.billing_period = 1 /\ ~o.is_recurring

\* a field that is not a number ("$11") is read as period 1, not recurring
C13_Witness ==
    /\ BillingPeriodRan
    /\ raw = StringCell(<<"$", "1", "1">>)
    /\ cleaned.out.billing_period = 1
    /\ ~cleaned.out.is_recurring

----------------------------------------------------------------------------
(* Properties of rule-based procedure-code normalization (SpecProc).       *)

ProcCodeRan == entry = "proc_code" /\ cleaned.ran
ProcColumnReported == entry = "proc_column" /\ pc = "reported"

\* the trimmed, upper-cased text of a string cell
Normalized(cell) == upper(strip(cell.val))

\* the cell matches no manual override, no sentinel literal and no E1399 prefix
MatchesNoRule(cell) ==
    /\ cell.kind = "string"
    /\ ~has_key(MANUAL_OVERRIDES, Normalized(cell))
    /\ Normalized(cell) \notin XZERO_CODES
    /\ ~(Len(Normalized(cell)) > 5 /\ SubSeq(Normalized(cell), 1, 5) = <<"E", "1", "3", "9", "9">>)

\* C14 as stated: clean_proc_code maps "e0184'" to the manual-override target E0184,
\* "XERO" to the sentinel XZERO, "E1399RR" to E1399, and a 7-character code
\* matching no manual override, sentinel literal or E1399 prefix to XZERO.
C14_RuleBasedExamples ==
    ProcCodeRan =>
        /\ raw = StringCell(<<"e", "0", "1", "8", "4", "'">>) => cleaned.out.cleaned = <<"E", "0", "1", "8", "4">>
        /\ raw = StringCell(<<"X", "E", "R", "O">>) => cleaned.out.cleaned = <<"X", "Z", "E", "R", "O">>
        /\ raw = StringCell(<<"E", "1", "3", "9", "9", "R", "R">>) => cleaned.out.cleaned = <<"E", "1", "3", "9", "9">>
        /\ (MatchesNoRule(raw) /\ Len(Normalized(raw)) = 7) => cleaned.out.cleaned = <<"X", "Z", "E", "R", "O">>

\* C14 amended: the manual-override table corrects "'e0184" (quote in front) to E0184,
\* while "e0184'" (quote behind) matches no rule and, having 6 characters, becomes
\* XZERO; "XERO" becomes XZERO, "E1399RR" becomes E1399, and a code of 7 characters
\* after trimming that matches no rule becomes XZERO.
C14_RuleBasedExamplesAsCoded ==
    ProcCodeRan =>
        /\ raw = StringCell(<<"'", "e", "0", "1", "8", "4">>) => cleaned.out.cleaned = <<"E", "0", "1", "8", "4">>
        /\ raw = StringCell(<<"e", "0", "1", "8", "4", "'">>) => cleaned.out.cleaned = <<"X", "Z", "E", "R", "O">>
        /\ raw = StringCell(<<"X", "E", "R", "O">>) => cleaned.out.cleaned = <<"X", "Z", "E", "R", "O">>
        /\ raw = StringCell(<<"E", "1", "3", "9", "9", "R", "R">>) => cleaned.out.cleaned = <<"E", "1", "3", "9", "9">>
        /\ (MatchesNoRule(raw) /\ Len(Normalized(raw)) = 7) => cleaned.out.cleaned = <<"X", "Z", "E", "R", "O">>

\* the quote-behind code was cleaned and came out as the sentinel
C14_Witness ==
    /\ ProcCodeRan
    /\ raw = StringCell(<<"e", "0", "1", "8", "4", "'">>)
    /\ cleaned.out.cleaned = <<"X", "Z", "E", "R", "O">>

OverrideTargets == {kv[2] : kv \in MANUAL_OVERRIDES}

\* C15: for every input (null, empty, any string of any length and case) the code
\* returned by clean_proc_code has exactly 5 characters: the sentinel, a
\* manual-override target, the base code E1399, or the trimmed upper-cased input
\* when that already has length 5.
C15_CleanedCodeHasFiveCharacters ==
    ProcCodeRan =>
        /\ Len(cleaned.out.cleaned) = 5
        /\ \/ cleaned.out.cleaned = <<"X", "Z", "E", "R", "O">>
           \/ cleaned.out.cleaned \in OverrideTargets
           \/ cleaned.out.cleaned = <<"E", "1", "3", "9", "9">>
           \/ /\ raw.kind = "string"
              /\ Len(Normalized(raw)) = 5
              /\ cleaned.out.cleaned = Normalized(raw)

\* a lower-case padded code of five characters is kept, upper-cased
C15_Witness ==
    /\ ProcCodeRan
    /\ raw = StringCell(<<" ", "e", "1", "3", "9", "1">>)
    /\ cleaned.out.cleaned = <<"E", "1", "3", "9", "1">>

\* one of the five override rules applies to the cell
RuleFired(cell) ==
    \/ cell.kind = "null"
    \/ ~MatchesNoRule(cell)
    \/ Len(Normalized(cell)) # 5

RECURSIVE FiredRows(_, _)
\* the 1-based positions, in order, of the rows of the column where a rule fired
FiredRows(column, n) ==
    IF n = 0 THEN <<>>
    ELSE IF RuleFired(column[n]) THEN Append(FiredRows(column, n - 1), n)
    ELSE FiredRows(column, n - 1)

ReportGroups == {"xzero_variants", "e1399_variants", "manual_overrides", "invalid_length",
                 "null_values"}

InGroup(o, g) == \E k \in 1..Len(report.out[g]) : report.out[g][k] = o

\* what C16 says about the audit entries themselves
AuditEntriesMatchRows ==
    LET fired == FiredRows(raw, Len(raw))
        overrides == cleaned.out.overrides
    IN  /\ Len(cleaned.out.cleaned_codes) = Len(raw)
        /\ Len(overrides) = Len(fired)
        /\ \A k \in 1..Len(overrides) :
              /\ overrides[k].Row = (fired[k] - 1) + 2
              /\ overrides[k].Original = str(raw[fired[k]])
              /\ overrides[k].Cleaned = cleaned.out.cleaned_codes[fired[k]]

\* C16: clean_proc_codes_column records an audit entry for a row iff one of the five
\* override rules fired for it; the entry carries the row's original value, the
\* cleaned value stored for that row, exactly one reason category, and the row's
\* 0-based position plus 2; entries are in row order and there are as many cleaned
\* codes as rows.
C16_AuditEntryPerOverride ==
    ProcColumnReported =>
        /\ AuditEntriesMatchRows
        /\ \A k \in 1..Len(cleaned.out.overrides) :
              Cardinality({g \in ReportGroups : InGroup(cleaned.out.overrides[k], g)}) = 1

----------------------------------------------------------------------------
(* Properties of lookup-table normalization (specification SpecMapping).   *)

\* the file the one load read, once a load has happened
LoadedFile == raw[loads[1]]

\* the original variants listed by row i of a table: the non-empty trimmed pieces
Variants(rows, i) ==
    LET pieces == split(rows[i].originals_pipe, "|")
    IN  {strip(pieces[k]) : k \in 1..Len(pieces)} \ {<<>>}

\* the canonical code of row i
Canonical(rows, i) == upper(strip(rows[i].final5))

ExactRows(rows, code) == {i \in 1..Len(rows) : code \in Variants(rows, i)}

CaselessRows(rows, code) ==
    {i \in 1..Len(rows) : \E v \in Variants(rows, i) : upper(v) = upper(code)}

\* the last call was clean_proc_code on a code that is not empty after trimming,
\* with the mapping read from a table without a failure
LookedUpInTable ==
    /\ entry = "mapping"
    /\ cleaned.ran
    /\ cleaned.fn = "analyze_invoices.clean_proc_code"
    /\ ~returns_unknown(cleaned.arg)
    /\ Len(loads) = 1
    /\ LoadedFile.exists
    /\ LoadedFile.rows_read = Len(LoadedFile.rows)

\* C17: for every mapping table and every non-empty code: if the trimmed code appears
\* verbatim among the variants of canonical code C, lookup-table normalization
\* returns C (exact match wins over a case-insensitive match with another row);
\* otherwise, if it equals a variant of C ignoring case, it returns C; otherwise it
\* returns the trimmed code upper-cased and never a sentinel.
C17_ExactThenCaselessThenUpper ==
    LookedUpInTable =>
        LET rows == LoadedFile.rows
            code == strip(cleaned.arg.val)
        IN  IF ExactRows(rows, code) # {}
            THEN cleaned.out \in {Canonical(rows, i) : i \in ExactRows(rows, code)}
            ELSE IF CaselessRows(rows, code) # {}
            THEN cleaned.out \in {Canonical(rows, i) : i \in CaselessRows(rows, code)}
            ELSE cleaned.out = upper(code)

\* C18: the mapping is loaded at most once per run: once the first call of
\* load_proc_code_mapping has returned (file read, missing, or failed part-way),
\* every later call of load_proc_code_mapping or clean_proc_code, with any
\* mapping_file argument, observes the same mapping contents and performs no
\* further load or mutation.
C18_MappingLoadedOnce ==
    [][~PROC_CODE_MAPPING.is_none =>
          /\ PROC_CODE_MAPPING' = PROC_CODE_MAPPING
          /\ loads' = loads
          /\ cleaned'.ran => cleaned'.mapping = PROC_CODE_MAPPING.dict]_vars

\* after the default file was loaded, a call naming the other (existing, different)
\* file returned the mapping of the first load
C18_Witness ==
    /\ entry = "mapping"
    /\ loads = <<"default">>
    /\ cleaned.ran
    /\ cleaned.fn = "analyze_invoices.load_proc_code_mapping"
    /\ cleaned.arg = "other"
    /\ raw.other.exists
    /\ cleaned.out = load_file(raw.default)
    /\ cleaned.out # load_file(raw.other)
    /\ cleaned.out # {}

----------------------------------------------------------------------------
(* Properties of the aggregators (specification SpecAggregate).            *)

SalesOrdersDone == entry = "analyze_sales_orders" /\ cleaned.ran
InvoicesDone == entry = "analyze_invoices" /\ cleaned.ran

RAbs(x) == IF RLt(x, R0) THEN RSub(R0, x) ELSE x

\* within half a hundredth per bucket of 100
SumsToHundred(shares) ==
    RLe(RAbs(RSub(RSum(shares, Len(shares)), R100)), Rat(7, 200))

\* the bucket rows reported for period file i
BucketRowsOf(i) == SelectSeq(cleaned.out.billing, LAMBDA row : row.Year = i)

\* C19: billing-period bucketing partitions the records of a period: every record,
\* whatever its parsed integer billing period, falls in exactly one of the buckets
\* 1, 2-3, 4-6, 7-12, 13-24, 25-36, 37+, so the buckets' Item Count values sum to the
\* number of records of the period and the item shares (and the payment shares,
\* when total payments are positive) sum to 100% up to rounding.
C19_BucketsPartitionThePeriod ==
    (InvoicesDone /\ ~cleaned.out.raised) =>
        \A i \in 1..Len(raw) :
            raw[i] # <<>> =>
                LET rows == BucketRowsOf(i)
                IN  /\ sum_of([k \in 1..Len(rows) |-> rows[k].Item_Count], Len(rows))
                         = Len(raw[i])
                    /\ SumsToHundred([k \in 1..Len(rows) |-> rows[k].Item_Pct])
                    /\ sum_field(raw[i], "payments") > 0
                         => SumsToHundred([k \in 1..Len(rows) |-> rows[k].Payment_Pct])

\* a percentage is a number, and 0 when its denominator is 0
GuardedPct(value, denominator) ==
    /\ ~IsNull(value)
    /\ denominator = 0 => value = R0

AllRows(rows, Test(_)) == \A k \in 1..Len(rows) : Test(rows[k])

\* C20: every percentage column of every aggregator output row (period rows, branch
\* rows, bucket rows and the TOTAL row, in the sales-order and the invoice analysis)
\* equals 0 when its denominator is 0, and computing it never produces a division
\* error or a not-a-number value, including when every period batch is empty.
C20_PercentagesGuardZeroDenominator ==
    /\ SalesOrdersDone =>
          /\ ~cleaned.out.raised
          /\ AllRows(cleaned.out.summary,
                     LAMBDA row : /\ GuardedPct(row.Retail_Pct, row.Total_Line_Items)
                                  /\ GuardedPct(row.Insurance_Pct, row.Total_Line_Items))
          /\ AllRows(cleaned.out.by_branch,
                     LAMBDA row : /\ GuardedPct(row.Retail_Pct, row.Total_Items)
                                  /\ GuardedPct(row.Insurance_Pct, row.Total_Items))
    /\ InvoicesDone =>
          /\ ~cleaned.out.raised
          /\ AllRows(cleaned.out.summary,
                     LAMBDA row : /\ GuardedPct(row.Retail_Pct, row.Total_Line_Items)
                                  /\ GuardedPct(row.Insurance_Pct, row.Total_Line_Items)
                                  /\ GuardedPct(row.Recurring_Pct, row.Total_Line_Items)
                                  /\ GuardedPct(row.Collection_Rate_Pct, row.Total_Billed))
          /\ AllRows(cleaned.out.by_branch,
                     LAMBDA row : /\ GuardedPct(row.Retail_Pct, row.Total_Items)
                                  /\ GuardedPct(row.Insurance_Pct, row.Total_Items)
                                  /\ GuardedPct(row.Recurring_Pct, row.Total_Items)
                                  /\ GuardedPct(row.Collection_Rate_Pct, row.Total_Billed))
          /\ AllRows(cleaned.out.billing,
                     LAMBDA row : /\ GuardedPct(row.Item_Pct, Len(raw[row.Year]))
                                  /\ GuardedPct(row.Payment_Pct,
                                                sum_field(raw[row.Year], "payments")))

\* the period files that get a row in the summary, in the order they are read:
\* all of them in the sales-order analysis, the ones with rows in the invoice analysis
PeriodsReported ==
    SelectSeq([i \in 1..Len(raw) |-> i],
              LAMBDA i : entry = "analyze_sales_orders" \/ raw[i] # <<>>)

SummaryWritten ==
    /\ SalesOrdersDone \/ InvoicesDone
    /\ ~cleaned.out.raised
    /\ cleaned.out.summary # <<>>

\* the period rows of a written summary and their column sums
PeriodRows == SubSeq(cleaned.out.summary, 1, Len(cleaned.out.summary) - 1)
TotalRow == cleaned.out.summary[Len(cleaned.out.summary)]
ColumnSum(column) == sum_of([i \in 1..Len(PeriodRows) |-> PeriodRows[i][column]],
                            Len(PeriodRows))

\* C21: in both analysis scripts the TOTAL row comes after all period rows, its
\* Total Line Items and Retail Items are the sums of those columns over the period
\* rows, and its Retail % is sum(Retail Items) / sum(Total Line Items) * 100 rounded
\* to 2 decimals (where that quotient exists), not the average of the period rows'
\* percentages.
C21_TotalRowFromColumnSums ==
    SummaryWritten =>
        /\ Len(PeriodRows) = Len(PeriodsReported)
        /\ \A i \in 1..Len(PeriodRows) : PeriodRows[i].Year = PeriodsReported[i]
        /\ TotalRow.Year = "TOTAL"
        /\ TotalRow.Total_Line_Items = ColumnSum("Total_Line_Items")
        /\ TotalRow.Retail_Items = ColumnSum("Retail_Items")
        /\ ColumnSum("Total_Line_Items") > 0 =>
               TotalRow.Retail_Pct =
                   round2(Rat(ColumnSum("Retail_Items") * 100, ColumnSum("Total_Line_Items")))

\* a sales-order summary over two periods where the average of the period
\* percentages differs from the percentage of the sums
C21_Witness ==
    /\ SalesOrdersDone
    /\ SummaryWritten
    /\ Len(PeriodRows) = 2
    /\ ColumnSum("Total_Line_Items") > 0
    /\ TotalRow.Retail_Pct # round2(mean([i \in 1..2 |-> PeriodRows[i].Retail_Pct]))

\* the same in the invoice summary
C21_WitnessInvoices ==
    /\ InvoicesDone
    /\ SummaryWritten
    /\ Len(PeriodRows) = 2
    /\ TotalRow.Retail_Pct # round2(mean([i \in 1..2 |-> PeriodRows[i].Retail_Pct]))


\* the average of a column of the period rows, each row weighted by its line items
WeightedAverage(column) ==
    RDiv(RSum([i \in 1..Len(PeriodRows) |->
                   RMul(RInt(PeriodRows[i].Total_Line_Items), PeriodRows[i][column])],
              Len(PeriodRows)),
         RInt(ColumnSum("Total_Line_Items")))

\* C22: in the invoice summary every average or rate column of the TOTAL row is
\* re-derived from summed quantities: Avg Billing Period of the TOTAL row is the
\* average of the period rows' Avg Billing Period weighted by their line-item
\* counts, and Collection Rate % of the TOTAL row is
\* sum(Total Payments) / sum(Total Billed) * 100.
C22_TotalAveragesFromSums ==
    (InvoicesDone /\ SummaryWritten) =>
        /\ TotalRow.Avg_Billing_Period = round2(WeightedAverage("Avg_Billing_Period"))
        /\ ColumnSum("Total_Billed") > 0 =>
               TotalRow.Collection_Rate_Pct =
                   round2(Rat(ColumnSum("Total_Payments") * 100, ColumnSum("Total_Billed")))


BranchesWritten ==
    /\ SalesOrdersDone \/ InvoicesDone
    /\ ~cleaned.out.raised

\* the rows of the branch breakdown for period file i
BranchRowsOf(i) == SelectSeq(cleaned.out.by_branch, LAMBDA row : row.Year = i)

\* the label under which the running script reports a record's branch
LabelOf(record) ==
    IF entry = "analyze_sales_orders" THEN branch_name_sales_orders(record.branch)
    ELSE branch_name_invoices(record.branch)

\* C24: within one period the branch breakdown has exactly one row per distinct
\* branch label, all records with a missing branch identifier are counted in a single
\* row labelled "Unknown", every record is counted in exactly one row, and the rows'
\* Total Items sum to the number of records of the period.
C24_OneRowPerBranchLabel ==
    BranchesWritten =>
        \A i \in 1..Len(raw) :
            LET rows == BranchRowsOf(i)
            IN  /\ \A j, k \in 1..Len(rows) : rows[j].Branch = rows[k].Branch => j = k
                /\ \A n \in 1..Len(raw[i]) :
                       \E j \in 1..Len(rows) : rows[j].Branch = LabelOf(raw[i][n])
                /\ \A j \in 1..Len(rows) :
                       rows[j].Total_Items =
                           count_rows(raw[i], LAMBDA r : LabelOf(r) = rows[j].Branch)
                /\ \A j \in 1..Len(rows) :
                       rows[j].Branch = Unknown =>
                           rows[j].Total_Items = count_rows(raw[i], LAMBDA r : IsNull(r.branch))
                /\ sum_of([j \in 1..Len(rows) |-> rows[j].Total_Items], Len(rows))
                       = Len(raw[i])

\* the same statement for the sales-order analysis alone
C24_SalesOrdersOnly == entry = "analyze_sales_orders" => C24_OneRowPerBranchLabel


\* C30: in every invoice period summary each line item is counted as exactly one of
\* new or recurring: New Items (Period 1) + Recurring Items (Period 2+) equals
\* Total Line Items for every batch, whatever the parsed billing periods are.
C30_NewPlusRecurringIsTotal ==
    (InvoicesDone /\ SummaryWritten) =>
        \A i \in 1..Len(PeriodRows) :
            PeriodRows[i].New_Items + PeriodRows[i].Recurring_Items
                = PeriodRows[i].Total_Line_Items

----------------------------------------------------------------------------
(* Further properties of the benchmarking engine (specification Spec).     *)

\* the secondary values the members of the peer set of a call can have
SecondaryValuesOf(call) ==
    IF IsNull(call.secondary_value) \/ IsNull(call.secondary_series) THEN {call.secondary_value}
    ELSE {call.secondary_series[k] : k \in 1..Len(call.secondary_series)}

\* the ranks of two rows of a benchmarked frame follow their different primary values
OrderKept(primary, rank) ==
    \A i, j \in 1..Len(Ranked) :
        (~IsNull(Ranked[i][primary]) /\ ~IsNull(Ranked[j][primary])
         /\ RLt(Ranked[i][primary], Ranked[j][primary]))
            => RLt(Ranked[i][rank], Ranked[j][rank])

\* C26: the tie-break adjustment never reorders on the primary metric: for two
\* members of a peer set with primary values a < b, whatever secondary values they
\* have, rank(a) < rank(b); only members with equal primary values can be ordered
\* by the secondary metric.
C26_PrimaryOrderKept ==
    /\ rank_call.called =>
          LET peers == dropna(rank_call.data_series)
          IN  \A j \in 1..Len(peers) : \A sb \in SecondaryValuesOf(rank_call) :
                  (NumEqual(rank_call.value, peers) > 0 /\ RLt(rank_call.value, peers[j]))
                      => RLt(rank_call.result,
                             calculate_percentile_rank(peers[j], rank_call.data_series,
                                                       sb, rank_call.secondary_series))
    /\ \A i, j \in 1..Len(Ranked) :
          /\ Ranked[i].Payments < Ranked[j].Payments
                => RLt(Ranked[i].Payments_Pctl, Ranked[j].Payments_Pctl)
          /\ Ranked[i].Invoices < Ranked[j].Invoices
                => RLt(Ranked[i].Volume_Pctl, Ranked[j].Volume_Pctl)
    /\ OrderKept("Collection_Rate", "Collection_Pctl")
    /\ OrderKept("Retail_Mix", "Retail_Mix_Pctl")

\* a call ranking a member that is tied, has the largest secondary value and so a
\* positive adjustment, and has a member with a larger primary value above it
C26_Witness ==
    /\ rank_call.called
    /\ NumEqual(rank_call.value, dropna(rank_call.data_series)) > 1
    /\ RLt(R0, tiebreaker_adjustment(rank_call.value, dropna(rank_call.data_series),
                                     rank_call.secondary_value, rank_call.secondary_series))
    /\ \E j \in 1..Len(dropna(rank_call.data_series)) :
           RLt(rank_call.value, dropna(rank_call.data_series)[j])


\* C27: for every set of branches, every branch's Performance Score lies in
\* [0, 100], and it is 50 when benchmarking is run over a single branch.
C27_PerformanceScoreBounded ==
    \A i \in 1..Len(Ranked) :
        /\ RLe(R0, Ranked[i].Performance_Score)
        /\ RLe(Ranked[i].Performance_Score, R100)
        /\ Len(Ranked) = 1 => Ranked[i].Performance_Score = R50

\* a benchmarked frame of a single branch that has a collection rate
C27_Witness ==
    /\ Len(Ranked) = 1
    /\ ~IsNull(Ranked[1].Collection_Rate)
    /\ Ranked[1].Performance_Score = R50

\* a frame of several branches with scores on both sides of 50, one of the
\* branches without a collection rate
C27_WitnessSeveral ==
    /\ \E i \in 1..Len(Ranked) : RLt(R50, Ranked[i].Performance_Score)
    /\ \E i \in 1..Len(Ranked) : RLt(Ranked[i].Performance_Score, R50)
    /\ \E i \in 1..Len(Ranked) : IsNull(Ranked[i].Collection_Rate)

----------------------------------------------------------------------------
(* Further properties of the procedure codes (specification SpecProc).     *)

\* C28: rule-based procedure-code normalization is idempotent on the cleaned value:
\* for every input x, clean_proc_code applied to the code returned for x returns
\* that same code.
C28_CleanProcCodeIdempotent ==
    ProcCodeRan =>
        clean_proc_code(StringCell(cleaned.out.cleaned)).cleaned = cleaned.out.cleaned

\* an input that a rule rewrote to a code other than XZERO
C28_Witness ==
    /\ ProcCodeRan
    /\ raw.kind = "string"
    /\ cleaned.out.reason # <<>>
    /\ cleaned.out.cleaned # <<"X", "Z", "E", "R", "O">>
    /\ cleaned.out.cleaned # upper(strip(raw.val))
    /\ clean_proc_code(StringCell(cleaned.out.cleaned)).reason = <<>>

\* an input returned as it is after trimming and upper-casing
C28_WitnessUnchanged ==
    /\ ProcCodeRan
    /\ raw.kind = "string"
    /\ cleaned.out.reason = <<>>
    /\ cleaned.out.cleaned # raw.val

----------------------------------------------------------------------------
(* Further properties of the classification rules (specification           *)
(* SpecClassify).                                                          *)

BothClassified ==
    /\ entry = "sales_order"
    /\ pc = "processed"
    /\ ~report.out.raised

\* C29: the two implementations of the three-flag rule agree: for every raw value
\* of the three insurance flags (null, booleans, numbers such as 1 or 0, strings
\* such as "true", "True", "1", "yes", "false"), the is_retail of the sales-order
\* analysis (safe_bool) equals the is_retail of the retail dashboard (process_data).
C29_ThreeFlagRulesAgree ==
    BothClassified => (cleaned.out.is_retail <=> report.out.is_retail)

\* the two implementations agree on rows whose flags are null or boolean
C29_AgreeOnBooleans ==
    (BothClassified
     /\ \A col \in {"Primary", "Secondary", "Tertiary"} : raw[col].kind \in {"null", "bool"})
        => (cleaned.out.is_retail <=> report.out.is_retail)

----------------------------------------------------------------------------
(* Properties of the creation dates (specification SpecDates).             *)

YearsSplit == entry = "py_split_years" /\ cleaned.ran
DatesParsed == entry = "safe_parse_date" /\ cleaned.ran

\* the date texts of the exports that are dates, with the year they name
DateTexts ==
    {<<<<"2", "0", "2", "0", "-", "0", "9", "-", "2", "9">>, <<"2", "0", "2", "0">>, 2020>>, <<<<"9", "/", "2", "9", "/", "2", "0", "2", "0">>, <<"2", "0", "2", "0">>, 2020>>,
     <<<<"1", "2", "/", "3", "1", "/", "2", "0", "2", "1", " ", "1", "1", ":", "5", "9", ":", "5", "9", " ", "P", "M">>, <<"2", "0", "2", "1">>, 2021>>,
     <<<<"2", "0", "1", "9", "-", "0", "1", "-", "0", "5", " ", "1", "5", ":", "0", "6", ":", "1", "5">>, <<"2", "0", "1", "9">>, 2019>>,
     <<<<"2", "0", "2", "1", "-", "0", "1", "-", "0", "5">>, <<"2", "0", "2", "1">>, 2021>>, <<<<"2", "/", "2", "9", "/", "2", "0", "2", "0">>, <<"2", "0", "2", "0">>, 2020>>}

\* the cell holds a date: a Timestamp, or a text that is a date once trimmed
Parseable(cell) ==
    \/ cell.kind = "timestamp"
    \/ cell.kind = "string" /\ \E t \in DateTexts : t[1] = strip(cell.val)

YearNumber(cell) ==
    IF cell.kind = "timestamp" THEN cell.val.year
    ELSE (CHOOSE t \in DateTexts : t[1] = strip(cell.val))[3]

YearText(cell) == (CHOOSE t \in DateTexts : t[1] = strip(cell.val))[2]

\* the files of a split that hold input row i, and how often a file holds it
FilesHolding(i) == {f \in cleaned.out : \E k \in 1..Len(f.rows) : f.rows[k].row = i}
TimesHeld(f, i) == Cardinality({k \in 1..Len(f.rows) : f.rows[k].row = i})

C23_WitnessInvoices ==
    /\ DatesParsed
    /\ Len(raw) = 2
    /\ raw[1].kind = "string"
    /\ ~Parseable(raw[1])
    /\ Parseable(raw[2])
    /\ cleaned.out[1] = NaT
    /\ ~cleaned.out[2].is_nat

\* a split of two rows into the files of two years
C23_WitnessTwoYears ==
    /\ YearsSplit
    /\ Cardinality(cleaned.out) = 2


----------------------------------------------------------------------------
(* The order of the steps of the two pipelines.                            *)

\* the steps whose failure the pipelines report as an error
MandatorySteps == {"py_split_years", "analyze_sales_orders", "analyze_invoices"}

\* step was started as the k-th step of the run, after an earlier step
\* that succeeded
StartedAfterSuccessOf(k, earlier) ==
    \E j \in 1..(k - 1) : loads[j] = Started(earlier, TRUE)

HasStarted(step) == \E k \in 1..Len(loads) : loads[k].step = step

RunEnded == pc = "exited" /\ report.ran

\* a step is started only after every earlier mandatory step has succeeded
StepsOnlyAfterMandatorySuccess ==
    \A k \in 1..Len(loads) :
        \A j \in 1..(k - 1) : loads[j].step \in MandatorySteps => loads[j].ok

\* sales orders: analysis only after a successful split, reports only after a
\* successful analysis; a failed split or analysis is the last step of the run,
\* which ends with status 1; failed reports do not keep the dashboard from starting
SalesStepsInOrder ==
    entry = "sales_pipeline" =>
        /\ \A k \in 1..Len(loads) :
              /\ loads[k].step = "analyze_sales_orders"
                     => StartedAfterSuccessOf(k, "py_split_years")
              /\ loads[k].step = "generate_reports"
                     => StartedAfterSuccessOf(k, "analyze_sales_orders")
              /\ loads[k].step \in MandatorySteps /\ ~loads[k].ok
                     => k = Len(loads) /\ RunEnded /\ report.out = 1
        /\ RunEnded /\ (\E k \in 1..Len(loads) : loads[k] = Started("generate_reports", FALSE))
               /\ raw.run_dashboard /\ raw.dashboard_script
               => HasStarted("retail_dashboard") /\ report.out = 0

\* invoices: reports only after a successful analysis, and the exit status is 0
\* exactly when the analysis succeeded
InvoiceStepsInOrder ==
    entry = "invoice_pipeline" =>
        /\ \A k \in 1..Len(loads) :
              loads[k].step = "generate_reports"
                  => StartedAfterSuccessOf(k, "analyze_invoices")
        /\ RunEnded =>
              (report.out = 0 <=> \E k \in 1..Len(loads) : loads[k] = Started("analyze_invoices", TRUE))

\* C25: in both pipelines a step is started only after every earlier mandatory
\* step has completed successfully; in the sales-order pipeline analysis starts only
\* after a successful split and reports only after a successful analysis, a failed split
\* or analysis ends the run with status 1 before any later step, and failed reports do
\* not prevent the remaining steps; in the invoice pipeline reports start only after a
\* successful analysis and the exit status is 0 iff the analysis succeeded.
C25_StepsAfterMandatorySuccess ==
    /\ StepsOnlyAfterMandatorySuccess
    /\ SalesStepsInOrder
    /\ InvoiceStepsInOrder

\* the statement for the sales-order pipeline alone
C25_SalesPipelineOnly ==
    entry = "sales_pipeline" => StepsOnlyAfterMandatorySuccess /\ SalesStepsInOrder

\* the steps the statement names for the invoice pipeline
C25_InvoiceNamedSteps == InvoiceStepsInOrder

\* a sales-order run whose reports failed and whose dashboard was started
C25_SalesReportsFailed ==
    /\ entry = "sales_pipeline"
    /\ RunEnded
    /\ \E k \in 1..Len(loads) : loads[k] = Started("generate_reports", FALSE)
    /\ HasStarted("retail_dashboard")

\* an invoice run whose analysis failed and whose dashboard was started
C25_InvoiceDashboardAfterFailure ==
    /\ entry = "invoice_pipeline"
    /\ RunEnded
    /\ \E k \in 1..Len(loads) : loads[k] = Started("analyze_invoices", FALSE)
    /\ HasStarted("invoice_dashboard")

====
